---- MODULE Spec2Model ----
(***************************************************************************)
(* client-resize-video: the multi-quality HLS orchestrator                 *)
(* (resizeVideoToMultiQualityHLS, src/src/hls.ts) and the real-time        *)
(* capture state machine (resizeVideo, src/unnamed/part_001).              *)
(*                                                                         *)
(* JavaScript runs every handler to its next await on one event loop, so   *)
(* one action is one such segment: from the event that resumes the code    *)
(* to the await (or return) at which it yields.                            *)
(***************************************************************************)
EXTENDS Integers, Sequences, FiniteSets, TLC

VARIABLES
    \* ---- resizeVideoToMultiQualityHLS (hls.ts 338-714) ----
    ladder,         \* qualityLevels, the argument
    srcW, srcH,     \* metadata.width, metadata.height
    autoFilter,     \* options.autoFilterQualities !== false
    useParallel,    \* options.parallel === true
    hasOnProgress,  \* options.onProgress is given
    mpc,            \* where the async function stands
    filtered,       \* filteredQualityLevels
    job,            \* job[i]: where processQuality(level i) stands
    contrib,        \* progressTracker.qualities, in halves of progressRange
    settled,        \* the values array Promise.all fills by index
    qualities,      \* the local `qualities`, returned when mpc = "resolved"
    err,            \* what the returned promise was rejected with
    reported,       \* what the caller's onProgress has seen so far
    outOfOrder,     \* a job has completed before a job of lower index
    engine,         \* engine[i]: the `ffmpeg` of processQuality(level i), 0 before it is made
    ns,             \* ns[e]: the entries in the file system of engine e
    deleteFailed,   \* the jobs one of whose deleteFile calls threw
    warned,         \* the jobs whose cleanup failure was logged by console.warn
    masterPlaylistContent,  \* the stream entries of the master playlist
    \* ---- resizeVideo (part_001 223-480) ----
    cpc,            \* where resizeVideo and its onstart handler stand
    promise,        \* the promise resizeVideo returns
    capOnProgress,  \* options.onProgress is given
    duration,       \* video.duration, in units of 25 ms
    rec,            \* mediaRecorder.state
    startEvt,       \* the recorder's start event is queued
    stopEvt,        \* the recorder's stop event is queued
    stopCalls,      \* how often mediaRecorder.stop() has been called
    loop,           \* the frame loop: pending timer or animation frame, or why it ended
    vTime,          \* video.currentTime, in units of 25 ms
    vPaused,        \* video.paused
    vEnded,         \* video.ended
    endedEvt,       \* the video's ended event is queued
    lastTime,       \* lastTime of the frame loop
    capSeen,        \* what the caller's onProgress has seen so far
    urls,           \* the object URLs created and not revoked
    tracks,         \* the live tracks of `stream`
    vBound,         \* video.src is the object URL of the file
    audio,          \* how the attempt to add the audio track went
    capErr,         \* why the returned promise was rejected
    optMime,        \* options.mimeType.mimeType, "none" without the option
    isTypeSupported,    \* the types MediaRecorder.isTypeSupported accepts
    supportedMimeType,  \* the type the recorder is made with, "" before
    optOutput,      \* options.output, "" without the option
    resolved,       \* what the returned promise was resolved with
    \* ---- recommendResizeMethod (helper.ts 51-145) ----
    rpc,            \* where the async function stands
    needsHLS,       \* the argument
    metaDuration,   \* metadata.duration in half seconds, -1 before it is known
    method,         \* the method of the recommendation returned, "" before
    \* ---- resizeVideos (part_001 485-509) ----
    bpc,            \* where the async function stands
    nFiles,         \* files.length
    bOnProgress,    \* options.onProgress is given
    capOf,          \* capOf[k]: the resizeVideo call for the k-th file
    results,        \* the local `results`
    batchSeen,      \* the last value passed to options.onProgress, -1 before
    \* ---- the geometry of resizeVideo (part_001 46-123, 235-262) ----
    gpc,            \* where the geometry stands
    videoSize,      \* video.videoWidth and video.videoHeight
    opts,           \* options.width, options.height (0 when not given), options.mode
    target,         \* targetWidth and targetHeight, <<>> before
    dimensions,     \* what calculateDimensions returned, <<>> before
    \* ---- the engine command (hls.ts 136-181, 469-509, 1032-1064) ----
    kpc,            \* where the building of the command stands
    cmdFn,          \* the function that builds it
    cmdOpts,        \* width, height, videoBitrate, format (0 or "" when not given)
    ffmpegArgs,     \* the local `ffmpegArgs` handed to ffmpeg.exec, <<>> before
    \* ---- downloadMultiQualityHLSAsZip (hls.ts 838-880) ----
    zpc,            \* where the function stands
    hlsOutput,      \* the argument: what resizeVideoToMultiQualityHLS returned
    zip,            \* the entries of the JSZip object: path and content
    \* ---- getFFmpeg and its callers (hls.ts 39-79, 120-263, 922-1130) ----
    eFn,            \* the function called: resizeVideoToHLS or fastResizeVideo
    eFiles,         \* files.length of the batch function, 0 for separate calls
    epc,            \* epc[c]: where call c stands
    eStep,          \* eStep[c]: the file operation call c makes next after exec
    eCb,            \* eCb[c]: call c passes an onProgress
    eOut,           \* eOut[c]: whose data call c read as playlist and as segment
    ffmpegInstance, \* the module's ffmpegInstance: 0 for null, else the call that made it
    isFFmpegLoaded, \* the module's isFFmpegLoaded
    instances,      \* how many `new FFmpeg()` were made
    loads,          \* how often ffmpegInstance.load() was invoked
    handler,        \* the call whose onProgress the instance's "progress" handler holds, 0 for none
    fs,             \* the engine's files: fs[name] is the call whose data it holds, 0 if absent
    running,        \* the exec the engine runs: its call and the input it reads
    lastEvent,      \* the last "progress" event: whose encode, whose callback, which percentage
    eTotal,         \* what the batch's options.onProgress was last called with
    touched         \* a call read, replaced or deleted an entry of another call

mqVars == <<ladder, srcW, srcH, autoFilter, useParallel, hasOnProgress, mpc,
            filtered, job, contrib, settled, qualities, err, reported,
            outOfOrder, engine, ns, deleteFailed, warned, masterPlaylistContent>>

\* the engines of the jobs, their file systems and the cleanup log
fileVars == <<engine, ns, deleteFailed, warned>>

capVars == <<cpc, promise, capOnProgress, duration, rec, startEvt, stopEvt,
             stopCalls, loop, vTime, vPaused, vEnded, endedEvt, lastTime, capSeen,
             urls, tracks, vBound, audio, capErr,
             optMime, isTypeSupported, supportedMimeType, optOutput, resolved>>

\* the recorder's type: what was asked for, what is supported, what is used;
\* the representation asked for and the one returned
mimeVars == <<optMime, isTypeSupported, supportedMimeType, optOutput, resolved>>

\* what the capture holds, how the audio attempt went and why it failed
resVars == <<urls, tracks, vBound, audio, capErr>>

helperVars == <<rpc, needsHLS, metaDuration, method>>

\* the state of the functions beside the orchestrator and the capture
batchVars == <<bpc, nFiles, bOnProgress, capOf, results, batchSeen>>

geoVars == <<gpc, videoSize, opts, target, dimensions>>

cmdVars == <<kpc, cmdFn, cmdOpts, ffmpegArgs>>

\* the state of the functions around the FFmpeg engine
zipVars == <<zpc, hlsOutput, zip>>

engVars == <<eFn, eFiles, epc, eStep, eCb, eOut, ffmpegInstance, isFFmpegLoaded,
             instances, loads, handler, fs, running, lastEvent, eTotal, touched>>

toolVars == <<cmdVars, zipVars, engVars>>

auxVars == <<helperVars, batchVars, geoVars, toolVars>>

vars == <<mqVars, capVars, auxVars>>

----------------------------------------------------------------------------
(* Bounds of the model *)

\* longest ladder passed to the orchestrator
MaxLevels == 3

----------------------------------------------------------------------------
(* Quality levels.  An optional number that is not given is 0: the code    *)
(* tests them with `!x` and `x || d`, which treat undefined and 0 alike.   *)

Level(n, w, h, vb, ab) ==
    [name |-> n, width |-> w, height |-> h, videoBitrate |-> vb, audioBitrate |-> ab]

\* HLS_QUALITY_PRESETS.FULL
L360  == Level("360p", 640, 360, 800000, 96000)
L480  == Level("480p", 854, 480, 1400000, 128000)
L720  == Level("720p", 1280, 720, 2800000, 128000)
L1080 == Level("1080p", 1920, 1080, 5000000, 192000)
\* levels that give one axis only, or none
LWide == Level("w1920", 1920, 0, 5000000, 0)
LTall == Level("h360", 0, 360, 800000, 0)
LSource == Level("source", 0, 0, 2800000, 0)

NoLevel == Level("", 0, 0, 0, 0)

SeqsUpTo(S, n) == UNION {[1..k -> S] : k \in 0..n}

\* the predicate of filterQualityLevels with the width test only
KeepLevelWidthOnly(level, sourceWidth, sourceHeight) ==
    IF level.width = 0 /\ level.height = 0 THEN TRUE
    ELSE LET targetWidth == IF level.width # 0 THEN level.width ELSE sourceWidth
         IN  targetWidth <= sourceWidth

KeepLevel(level, sourceWidth, sourceHeight) ==
    IF level.width = 0 /\ level.height = 0 THEN TRUE
    ELSE LET targetWidth == IF level.width # 0 THEN level.width ELSE sourceWidth
             targetHeight == IF level.height # 0 THEN level.height ELSE sourceHeight
         IN  targetWidth <= sourceWidth /\ targetHeight <= sourceHeight

RECURSIVE SelectLevels(_, _, _, _)
\* Array.prototype.filter from index k on: the elements that pass, in their order
SelectLevels(levels, sourceWidth, sourceHeight, k) ==
    IF k > Len(levels) THEN <<>>
    ELSE (IF KeepLevel(levels[k], sourceWidth, sourceHeight)
          THEN <<levels[k]>> ELSE <<>>)
         \o SelectLevels(levels, sourceWidth, sourceHeight, k + 1)

filterQualityLevels(qualityLevels, sourceWidth, sourceHeight) ==
    SelectLevels(qualityLevels, sourceWidth, sourceHeight, 1)

----------------------------------------------------------------------------
(* The orchestrator: resizeVideoToMultiQualityHLS *)

NoError == [kind |-> "none", index |-> 0]
JobError(i) == [kind |-> "job", index |-> i]
OtherError(k) == [kind |-> k, index |-> 0]

N == Len(filtered)
Jobs == 1..N

\* `${level.name}_playlist.m3u8`: the name and what is appended to it
PlaylistName(level) == <<level.name, "_playlist.m3u8">>

\* what one processQuality call returns
QualityOf(level) == [level |-> level, playlist |-> PlaylistName(level)]
NoQuality == QualityOf(NoLevel)

\* the engine's `progress` of one progress event, in halves: -0.5, 0.5, 1.5.
\* FFmpeg.wasm computes it as time/duration and neither bounds nor orders it.
EngineProgress == {-1, 1, 3}

\* the value set for a job that has returned: progressRange itself
FullRange == 2

Min(a, b) == IF a <= b THEN a ELSE b

\* Math.round(num/den) for den > 0: the nearest integer, halves upwards
MathRound(num, den) == (2 * num + den) \div (2 * den)

RECURSIVE SumTo(_, _)
SumTo(f, k) == IF k = 0 THEN 0 ELSE f[k] + SumTo(f, k - 1)

\* Math.floor in the place of Math.round
overallProgressFloor(c, n) == Min((SumTo(c, n) * 100) \div (2 * n), 100)

\* progressTracker.onUpdate: the value handed to options.onProgress.
\* c[i] halves of progressRange = 100/n are c[i] * 100 / (2n).
overallProgress(c, n) == Min(MathRound(SumTo(c, n) * 100, 2 * n), 100)

\* the caller's view of its onProgress callback: the last value passed (none
\* before the first call) and whether no call so far passed less than the
\* call before it
NothingSeen == [last |-> <<>>, monotone |-> TRUE]
Observe(seen, v) ==
    [last |-> <<v>>,
     monotone |-> seen.monotone /\ (seen.last = <<>> \/ seen.last[1] <= v)]

\* the caller's view of the onProgress passed to resizeVideo: as Observe, and
\* whether a call came after the returned promise was settled
CapNothingSeen == [last |-> <<>>, monotone |-> TRUE, late |-> FALSE]
ObserveCapture(seen, v, p) ==
    [last |-> <<v>>,
     monotone |-> seen.monotone /\ (seen.last = <<>> \/ seen.last[1] <= v),
     late |-> seen.late \/ p # "pending"]

\* Promise.all, collecting in the order of arrival
PromiseAllByArrival(values, index, value) ==
    LET free == {k \in DOMAIN values : values[k] = NoQuality}
        first == CHOOSE k \in free : \A m \in free : k <= m
    IN  [values EXCEPT ![first] = value]

\* Promise.all stores each fulfilment at the index of its promise
PromiseAll(values, index, value) == [values EXCEPT ![index] = value]

\* launching every job at once, whatever the mode
StartedAtLaunchAll(n, parallel) == 1..n

\* the jobs whose processQuality is called before the first await of the
\* scheduling code: all of them (map) or the first (for loop)
StartedAtLaunch(n, parallel) == IF parallel THEN 1..n ELSE {1}

\* a job's rejection that is swallowed
RejectedBySwallow(m, e, i) == [pc |-> m, error |-> e]

\* a job's rejection reaches the caller: the await in the for loop throws, or
\* Promise.all rejects with the first rejection and ignores the later ones
RejectedBy(m, e, i) ==
    IF m = "run" THEN [pc |-> "rejected", error |-> JobError(i)]
    ELSE [pc |-> m, error |-> e]

\* level.audioBitrate || 128000
DefaultAudioBitrate == 128000

\* the BANDWIDTH of a stream entry without the audio bitrate
BandwidthVideoOnly(level) == level.videoBitrate

\* hls.ts 678: the BANDWIDTH of a stream entry
Bandwidth(level) ==
    level.videoBitrate
        + (IF level.audioBitrate # 0 THEN level.audioBitrate ELSE DefaultAudioBitrate)

\* RESOLUTION given as soon as one axis is given
ResolutionOfAnyAxis(level) ==
    IF level.width # 0 \/ level.height # 0 THEN <<level.width, level.height>> ELSE <<>>

\* hls.ts 683-685: the RESOLUTION attribute, <<>> when it is left out
ResolutionOf(level) ==
    IF level.width # 0 /\ level.height # 0 THEN <<level.width, level.height>> ELSE <<>>

\* hls.ts 677-692: the #EXT-X-STREAM-INF line of one quality and the
\* reference line after it
StreamEntry(quality) ==
    [bandwidth |-> Bandwidth(quality.level),
     resolution |-> ResolutionOf(quality.level),
     name |-> quality.level.name,
     ref |-> quality.playlist]

\* hls.ts 674-693: the entries of the master playlist, one per element of
\* `qualities` in its order
MasterPlaylist(qs) == [k \in 1..Len(qs) |-> StreamEntry(qs[k])]

\* one engine for every job
SharedEngine(i) == 1

\* `new FFmpeg()` in processQuality: an instance no other call has; it is
\* named by the index of the call that made it
NewEngine(i) == i

\* the entries job i writes into its engine's file system: inputName by
\* writeFile, outputName and the segments by exec
Entry(kind, i) == <<kind, i>>
InputOf(i) == {Entry("input", i)}
OutputsOf(i) == {Entry("playlist", i), Entry("segment", i)}
EntriesOf(i) == InputOf(i) \cup OutputsOf(i)

\* the order of the deleteFile calls of the cleanup
DeleteOrder == <<"input", "playlist", "segment">>

\* which deleteFile call throws: none (0), or the one of DeleteOrder[failAt]
CleanupFailures == 0..Len(DeleteOrder)

\* none, or the first one (nothing is deleted)
CleanupFailuresFirst == {0, 1}

\* none
CleanupFailuresNone == {0}

\* what the cleanup leaves of job i's entries: the calls after the one that
\* throws are skipped
LeftByCleanup(i, failAt) ==
    IF failAt = 0 THEN {}
    ELSE {Entry(DeleteOrder[k], i) : k \in failAt..Len(DeleteOrder)}

\* a cleanup without the try/catch, as in resizeVideoToHLS
CleanupThrowsUncaught(failAt) == failAt # 0

\* whether the cleanup block of processQuality throws: its catch logs and
\* goes on
CleanupThrows(failAt) == FALSE

\* where processQuality can throw: ffmpeg.load or writeFile, exec, readFile
FailStages == {"load", "exec", "read"}

\* the ladders tried: the first k levels of one ascending ladder, a ladder
\* above both sources, and one of levels that give one axis only
MQPreset == <<L360, L720, L1080, LSource, L480>>
MQOthers == {<<L1080>>, <<LTall, LWide>>}
MQLadders ==
    {SubSeq(MQPreset, 1, k) : k \in 0..Min(MaxLevels, Len(MQPreset))} \cup MQOthers
Sources == {<<1280, 720>>, <<320, 240>>}

\* recommendResizeMethod is not called
HelperIdle ==
    /\ rpc = "idle"
    /\ needsHLS = FALSE
    /\ metaDuration = -1
    /\ method = ""

\* resizeVideos is not called
BatchIdle ==
    /\ bpc = "idle"
    /\ nFiles = 0
    /\ bOnProgress = FALSE
    /\ capOf = <<>>
    /\ results = <<>>
    /\ batchSeen = -1

\* no geometry is asked for
GeoIdle ==
    /\ gpc = "idle"
    /\ videoSize = <<>>
    /\ opts = <<>>
    /\ target = <<>>
    /\ dimensions = <<>>

\* no command is being built
CmdIdle ==
    /\ kpc = "idle"
    /\ cmdFn = ""
    /\ cmdOpts = <<>>
    /\ ffmpegArgs = <<>>

\* nothing is being packaged
ZipIdle ==
    /\ zpc = "idle"
    /\ hlsOutput = <<>>
    /\ zip = {}

\* the engine runs no command; no progress event was fired; the batch's
\* callback was not called
NoRun == [call |-> 0, src |-> 0]
NoEvent == [by |-> 0, to |-> 0, p |-> 0]
NoTotal == [k |-> "none"]

\* the module is loaded and none of its functions is called
EngIdle ==
    /\ eFn = ""
    /\ eFiles = 0
    /\ epc = <<>>
    /\ eStep = <<>>
    /\ eCb = <<>>
    /\ eOut = <<>>
    /\ ffmpegInstance = 0
    /\ isFFmpegLoaded = FALSE
    /\ instances = 0
    /\ loads = 0
    /\ handler = 0
    /\ fs = <<>>
    /\ running = NoRun
    /\ lastEvent = NoEvent
    /\ eTotal = NoTotal
    /\ touched = FALSE

ToolIdle == CmdIdle /\ ZipIdle /\ EngIdle

\* the promise of a capture has not been resolved
NoResult == [kind |-> "none", type |-> "", extension |-> ""]

AuxIdle == HelperIdle /\ BatchIdle /\ GeoIdle /\ ToolIdle

\* no capture is running
CapIdle ==
    /\ cpc = "idle"
    /\ promise = "pending"
    /\ capOnProgress = FALSE
    /\ duration = 0
    /\ rec = "inactive"
    /\ startEvt = FALSE
    /\ stopEvt = FALSE
    /\ stopCalls = 0
    /\ loop = "off"
    /\ vTime = 0
    /\ vPaused = TRUE
    /\ vEnded = FALSE
    /\ endedEvt = FALSE
    /\ lastTime = 0
    /\ capSeen = CapNothingSeen
    /\ urls = {}
    /\ tracks = {}
    /\ vBound = FALSE
    /\ audio = "none"
    /\ capErr = "none"
    /\ optMime = "none"
    /\ isTypeSupported = {}
    /\ supportedMimeType = ""
    /\ optOutput = ""
    /\ resolved = NoResult

MQInit ==
    /\ CapIdle
    /\ AuxIdle
    /\ ladder \in MQLadders
    /\ \E s \in Sources : srcW = s[1] /\ srcH = s[2]
    /\ autoFilter \in BOOLEAN
    /\ useParallel \in BOOLEAN
    /\ hasOnProgress \in BOOLEAN
    /\ mpc = "start"
    /\ filtered = <<>>
    /\ job = <<>>
    /\ contrib = <<>>
    /\ settled = <<>>
    /\ qualities = <<>>
    /\ err = NoError
    /\ reported = NothingSeen
    /\ outOfOrder = FALSE
    /\ engine = <<>>
    /\ ns = <<>>
    /\ deleteFailed = {}
    /\ warned = {}
    /\ masterPlaylistContent = <<>>

\* the test for an emptied ladder left out
NoSuitableLevelsUnchecked(auto, levels) == FALSE

\* hls.ts 367, 387: the filter ran and left no level
NoSuitableLevels(auto, levels) == auto /\ Len(levels) = 0

\* hls.ts 348-358: the call, up to `await getVideoMetadata(file)`
MQCall ==
    /\ mpc = "start"
    /\ IF Len(ladder) = 0
       THEN mpc' = "rejected" /\ err' = OtherError("empty")
       ELSE mpc' = "probing" /\ err' = err
    /\ UNCHANGED <<ladder, srcW, srcH, autoFilter, useParallel, hasOnProgress,
                   filtered, job, contrib, settled, qualities, reported,
                   outOfOrder>>
    /\ UNCHANGED <<fileVars, masterPlaylistContent>>
    /\ UNCHANGED <<capVars, auxVars>>

\* hls.ts 299-302: video.onerror of getVideoMetadata
MQMetadataError ==
    /\ mpc = "probing"
    /\ mpc' = "rejected"
    /\ err' = OtherError("metadata")
    /\ UNCHANGED <<ladder, srcW, srcH, autoFilter, useParallel, hasOnProgress,
                   filtered, job, contrib, settled, qualities, reported,
                   outOfOrder>>
    /\ UNCHANGED <<fileVars, masterPlaylistContent>>
    /\ UNCHANGED <<capVars, auxVars>>

\* the filter applied whether or not it was disabled
LevelsToEncodeFiltered(auto, levels, sourceWidth, sourceHeight) ==
    filterQualityLevels(levels, sourceWidth, sourceHeight)

\* hls.ts 364-372: filteredQualityLevels, the ladder itself unless
\* options.autoFilterQualities !== false
LevelsToEncode(auto, levels, sourceWidth, sourceHeight) ==
    IF auto THEN filterQualityLevels(levels, sourceWidth, sourceHeight)
    ELSE levels

\* hls.ts 359-400: metadata arrived; filter; up to `await loadFFmpegDependencies()`
MQMetadata ==
    /\ mpc = "probing"
    /\ LET f == LevelsToEncode(autoFilter, ladder, srcW, srcH)
       IN  IF NoSuitableLevels(autoFilter, f)
           THEN /\ mpc' = "rejected"
                /\ err' = OtherError("nofit")
                /\ UNCHANGED filtered
           ELSE /\ mpc' = "deps"
                /\ filtered' = f
                /\ err' = err
    /\ UNCHANGED <<ladder, srcW, srcH, autoFilter, useParallel, hasOnProgress,
                   job, contrib, settled, qualities, reported, outOfOrder>>
    /\ UNCHANGED <<fileVars, masterPlaylistContent>>
    /\ UNCHANGED <<capVars, auxVars>>

\* hls.ts 22-34: the dynamic import of @ffmpeg/ffmpeg fails
MQDepsError ==
    /\ mpc = "deps"
    /\ mpc' = "rejected"
    /\ err' = OtherError("deps")
    /\ UNCHANGED <<ladder, srcW, srcH, autoFilter, useParallel, hasOnProgress,
                   filtered, job, contrib, settled, qualities, reported,
                   outOfOrder>>
    /\ UNCHANGED <<fileVars, masterPlaylistContent>>
    /\ UNCHANGED <<capVars, auxVars>>

\* hls.ts 400-403, 575-623 / 639-658: the tracker is set up, every index gets
\* 0, and processQuality runs up to its first await for each job started
MQLaunch ==
    /\ mpc = "deps"
    /\ mpc' = "run"
    /\ job' = [i \in Jobs |->
                 IF i \in StartedAtLaunch(N, useParallel) THEN "load" ELSE "idle"]
    /\ contrib' = [i \in Jobs |-> 0]
    /\ settled' = [i \in Jobs |-> NoQuality]
    /\ engine' = [i \in Jobs |-> 0]
    /\ ns' = [e \in Jobs |-> {}]
    /\ UNCHANGED <<ladder, srcW, srcH, autoFilter, useParallel, hasOnProgress,
                   filtered, qualities, err, reported, outOfOrder, deleteFailed,
                   warned, masterPlaylistContent>>
    /\ UNCHANGED <<capVars, auxVars>>

\* hls.ts 422-515: the job's engine is made and loaded, the input written,
\* exec called
JobLoaded(i) ==
    /\ i \in DOMAIN job
    /\ job[i] = "load"
    /\ job' = [job EXCEPT ![i] = "exec"]
    /\ LET e == NewEngine(i)
       IN  /\ engine' = [engine EXCEPT ![i] = e]
           /\ ns' = [ns EXCEPT ![e] = @ \cup InputOf(i)]
    /\ UNCHANGED <<deleteFailed, warned, masterPlaylistContent>>
    /\ UNCHANGED <<ladder, srcW, srcH, autoFilter, useParallel, hasOnProgress,
                   mpc, filtered, contrib, settled, qualities, err, reported,
                   outOfOrder>>
    /\ UNCHANGED <<capVars, auxVars>>

\* hls.ts 427-432, 584-594: a progress event of job i's engine
JobProgress(i, progress) ==
    /\ i \in DOMAIN job
    /\ job[i] = "exec"
    /\ hasOnProgress
    /\ LET c == [contrib EXCEPT ![i] = progress]
       IN  /\ contrib' = c
           /\ reported' = Observe(reported, overallProgress(c, N))
    /\ UNCHANGED <<ladder, srcW, srcH, autoFilter, useParallel, hasOnProgress,
                   mpc, filtered, job, settled, qualities, err, outOfOrder>>
    /\ UNCHANGED <<fileVars, masterPlaylistContent>>
    /\ UNCHANGED <<capVars, auxVars>>

\* hls.ts 422-539: ffmpeg.load or writeFile (stage "load"), exec, or readFile
\* of job i throws.  Nothing in processQuality catches it: the entries
\* written so far stay in the engine, processQuality rejects and the
\* caller's await (or Promise.all) sees it
JobFail(i, stage) ==
    /\ i \in DOMAIN job
    /\ job[i] = (IF stage = "load" THEN "load" ELSE "exec")
    /\ job' = [job EXCEPT ![i] = "failed"]
    /\ CASE stage = "load" ->
              /\ engine' = [engine EXCEPT ![i] = NewEngine(i)]
              /\ UNCHANGED ns
         [] stage = "exec" ->
              UNCHANGED <<engine, ns>>
         [] stage = "read" ->
              /\ ns' = [ns EXCEPT ![engine[i]] = @ \cup OutputsOf(i)]
              /\ UNCHANGED engine
    /\ LET r == RejectedBy(mpc, err, i)
       IN  mpc' = r.pc /\ err' = r.error
    /\ UNCHANGED <<ladder, srcW, srcH, autoFilter, useParallel, hasOnProgress,
                   filtered, contrib, settled, qualities, reported, outOfOrder,
                   deleteFailed, warned, masterPlaylistContent>>
    /\ UNCHANGED <<capVars, auxVars>>

\* hls.ts 515-573 then 625-635 (parallel) or 659-667, and 673-714 when it was
\* the last job: exec returns, the outputs are read, the cleanup deletes the
\* job's entries (a deleteFile that throws is caught and logged), the job
\* returns; its share is set to the full range and reported; then
\* Promise.all takes the value, or the loop pushes it and calls
\* processQuality for the next level; after the last job the master
\* playlist is built and the call returns
JobFinish(i, failAt) ==
    /\ i \in DOMAIN job
    /\ job[i] = "exec"
    /\ ns' = [ns EXCEPT ![engine[i]] = (@ \ EntriesOf(i)) \cup LeftByCleanup(i, failAt)]
    /\ UNCHANGED engine
    /\ deleteFailed' = (IF failAt # 0 THEN deleteFailed \cup {i} ELSE deleteFailed)
    /\ IF CleanupThrows(failAt)
       THEN /\ job' = [job EXCEPT ![i] = "failed"]
            /\ LET r == RejectedBy(mpc, err, i)
               IN  mpc' = r.pc /\ err' = r.error
            /\ UNCHANGED <<contrib, reported, outOfOrder, settled, qualities,
                           warned, masterPlaylistContent>>
       ELSE /\ warned' = (IF failAt # 0 THEN warned \cup {i} ELSE warned)
            /\ LET c == [contrib EXCEPT ![i] = FullRange]
               IN  IF hasOnProgress
                   THEN /\ contrib' = c
                        /\ reported' = Observe(reported, overallProgress(c, N))
                   ELSE UNCHANGED <<contrib, reported>>
            /\ outOfOrder' = (outOfOrder \/ \E k \in 1..(i - 1) : job[k] # "done")
            /\ IF useParallel
               THEN LET v == PromiseAll(settled, i, QualityOf(filtered[i]))
                        all == \A k \in Jobs : k = i \/ job[k] = "done"
                    IN  /\ job' = [job EXCEPT ![i] = "done"]
                        /\ settled' = v
                        /\ IF all /\ mpc = "run"
                           THEN /\ mpc' = "resolved"
                                /\ qualities' = v
                                /\ masterPlaylistContent' = MasterPlaylist(v)
                           ELSE UNCHANGED <<mpc, qualities, masterPlaylistContent>>
               ELSE LET q == Append(qualities, QualityOf(filtered[i]))
                    IN  /\ qualities' = q
                        /\ UNCHANGED settled
                        /\ IF i < N
                           THEN /\ job' = [job EXCEPT ![i] = "done", ![i + 1] = "load"]
                                /\ UNCHANGED <<mpc, masterPlaylistContent>>
                           ELSE /\ job' = [job EXCEPT ![i] = "done"]
                                /\ mpc' = "resolved"
                                /\ masterPlaylistContent' = MasterPlaylist(q)
            /\ UNCHANGED err
    /\ UNCHANGED <<ladder, srcW, srcH, autoFilter, useParallel, hasOnProgress,
                   filtered>>
    /\ UNCHANGED <<capVars, auxVars>>

MQNext ==
    \/ MQCall
    \/ MQMetadataError
    \/ MQMetadata
    \/ MQDepsError
    \/ MQLaunch
    \/ \E i \in 1..MaxLevels : JobLoaded(i)
    \/ \E i \in 1..MaxLevels : \E p \in EngineProgress : JobProgress(i, p)
    \/ \E i \in 1..MaxLevels : \E stage \in FailStages : JobFail(i, stage)
    \/ \E i \in 1..MaxLevels : \E failAt \in CleanupFailuresFirst : JobFinish(i, failAt)

Spec == MQInit /\ [][MQNext]_vars

----------------------------------------------------------------------------
(* The orchestrator without a progress callback, with every place where a  *)
(* job can throw and every deleteFile that can: the engines, their file    *)
(* systems and the master playlist.                                        *)

FilesInit ==
    /\ MQInit
    /\ ~hasOnProgress

FilesNext ==
    \/ MQCall
    \/ MQMetadataError
    \/ MQMetadata
    \/ MQDepsError
    \/ MQLaunch
    \/ \E i \in 1..MaxLevels : JobLoaded(i)
    \/ \E i \in 1..MaxLevels : \E stage \in FailStages : JobFail(i, stage)
    \/ \E i \in 1..MaxLevels : \E failAt \in CleanupFailures : JobFinish(i, failAt)

SpecFiles == FilesInit /\ [][FilesNext]_vars

----------------------------------------------------------------------------
(* The orchestrator on many ladders, one job at a time, without a progress *)
(* callback and with no deleteFile that throws: what is encoded for which  *)
(* ladder and source.                                                      *)

\* longest ladder tried for the filter
MaxLadder == 3

LadderLevels == {L360, L720, L1080, LWide, LTall, LSource}
LadderSources == {<<1280, 720>>, <<320, 240>>, <<1920, 1080>>}

LadderInit ==
    /\ CapIdle
    /\ AuxIdle
    /\ ladder \in SeqsUpTo(LadderLevels, MaxLadder)
    /\ \E s \in LadderSources : srcW = s[1] /\ srcH = s[2]
    /\ autoFilter \in BOOLEAN
    /\ useParallel = FALSE
    /\ hasOnProgress = FALSE
    /\ mpc = "start"
    /\ filtered = <<>>
    /\ job = <<>>
    /\ contrib = <<>>
    /\ settled = <<>>
    /\ qualities = <<>>
    /\ err = NoError
    /\ reported = NothingSeen
    /\ outOfOrder = FALSE
    /\ engine = <<>>
    /\ ns = <<>>
    /\ deleteFailed = {}
    /\ warned = {}
    /\ masterPlaylistContent = <<>>

LadderNext ==
    \/ MQCall
    \/ MQMetadataError
    \/ MQMetadata
    \/ MQDepsError
    \/ MQLaunch
    \/ \E i \in 1..MaxLadder : JobLoaded(i)
    \/ \E i \in 1..MaxLadder : \E stage \in FailStages : JobFail(i, stage)
    \/ \E i \in 1..MaxLadder : \E failAt \in CleanupFailuresNone : JobFinish(i, failAt)

SpecLadder == LadderInit /\ [][LadderNext]_vars

----------------------------------------------------------------------------
(* Claims about the orchestrator *)

InFlight == {i \in DOMAIN job : job[i] \in {"load", "exec"}}
Failed == {i \in DOMAIN job : job[i] = "failed"}

\* C1: in parallel mode the returned qualities array has one entry per
\* post-filter level and qualities[i].level is the i-th level of the ladder,
\* whatever the order in which the jobs completed.
C1_ParallelResultOrder ==
    (mpc = "resolved" /\ useParallel) =>
        /\ Len(qualities) = N
        /\ \A i \in Jobs : qualities[i].level = filtered[i]

\* three jobs ran in parallel, one completed before a job of lower index,
\* and the call returned
C1_Witness ==
    mpc = "resolved" /\ useParallel /\ outOfOrder /\ N = 3

\* C2: in sequential mode at most one job is in flight, and the job of
\* level i+1 is not started before the job of level i has returned.
C2_SequentialOneAtATime ==
    ~useParallel =>
        /\ Cardinality(InFlight) <= 1
        /\ \A i \in DOMAIN job :
              (i > 1 /\ job[i] # "idle") => job[i - 1] = "done"

\* sequential mode, the second job is encoding after the first returned
C2_Witness ==
    ~useParallel /\ N >= 2 /\ mpc = "run" /\ job[1] = "done" /\ job[2] = "exec"

\* C3: once a job has failed the call is rejected with the failure of a
\* failed job (of that job when it is the only one that failed; in parallel
\* mode of the one that failed first) and never returns a result.
C3_FailureRejectsAll ==
    Failed # {} =>
        /\ mpc = "rejected"
        /\ err.kind = "job"
        /\ err.index \in Failed
        /\ \A i \in Failed : Cardinality(Failed) = 1 => err = JobError(i)

\* parallel mode: one job failed while another had already produced output
C3_Witness ==
    /\ useParallel
    /\ mpc = "rejected"
    /\ \E i, k \in DOMAIN job : job[i] = "failed" /\ job[k] = "done"

\* C4: in a completed run with an onProgress callback the values passed to
\* it never decrease and the last one is 100.
C4_ProgressMonotoneTo100 ==
    (mpc = "resolved" /\ hasOnProgress) =>
        /\ reported.monotone
        /\ reported.last = <<100>>

\* the levels of the ladder the claim says are encoded
Fits(level) ==
    \/ level.width = 0 /\ level.height = 0
    \/ /\ (IF level.width = 0 THEN srcW ELSE level.width) <= srcW
       /\ (IF level.height = 0 THEN srcH ELSE level.height) <= srcH
KeptIndexes == {j \in 1..Len(ladder) : Fits(ladder[j])}
NthOf(S, k) == CHOOSE j \in S : Cardinality({m \in S : m <= j}) = k

\* C10: with filtering enabled the levels encoded are exactly the fitting
\* levels of the ladder in their original order; source 1280x720 with
\* 360p, 720p, 1080p drops exactly 1080p; no returned rendition exceeds the
\* source.
C10_LadderFilter ==
    (autoFilter /\ mpc \in {"deps", "run", "resolved"}) =>
        /\ Len(filtered) = Cardinality(KeptIndexes)
        /\ \A k \in 1..Len(filtered) : filtered[k] = ladder[NthOf(KeptIndexes, k)]
        /\ (ladder = <<L360, L720, L1080>> /\ srcW = 1280 /\ srcH = 720)
              => filtered = <<L360, L720>>
        /\ mpc = "resolved" =>
              /\ Len(qualities) = Len(filtered)
              /\ \A k \in 1..Len(qualities) :
                    /\ qualities[k].level = filtered[k]
                    /\ qualities[k].level.width <= srcW
                    /\ qualities[k].level.height <= srcH

\* the spec's example ran to the end with 1080p dropped
C10_Witness ==
    /\ autoFilter
    /\ mpc = "resolved"
    /\ ladder = <<L360, L720, L1080>>
    /\ srcW = 1280 /\ srcH = 720
    /\ Len(qualities) = 2

\* C36: with autoFilterQualities = false the ladder is encoded unchanged: no
\* level is dropped, levels larger than the source are encoded too, in the
\* order of the input, and the call never fails for a ladder that filtering
\* emptied.
C36_UnfilteredLadder ==
    ~autoFilter =>
        /\ err # OtherError("nofit")
        /\ mpc \in {"deps", "run", "resolved"} => filtered = ladder
        /\ \A i \in DOMAIN job : i \in 1..Len(ladder)
        /\ mpc = "resolved" =>
              /\ Len(qualities) = Len(ladder)
              /\ \A k \in 1..Len(ladder) : qualities[k].level = ladder[k]

\* 1080p, 360p and 720p asked of a 320x240 source with the filter off: all
\* three were encoded, in that order
C36_Witness ==
    /\ ~autoFilter
    /\ ladder = <<L1080, L360, L720>>
    /\ srcW = 320 /\ srcH = 240
    /\ mpc = "resolved"
    /\ Len(qualities) = 3
    /\ qualities[1].level = L1080

\* the ladder is empty, or the filter is on and no level fits the source
NothingToEncode == Len(ladder) = 0 \/ (autoFilter /\ KeptIndexes = {})

\* C11: for an empty ladder, or a ladder of which filtering leaves nothing,
\* the call is rejected with the error for that case (unless probing the
\* source failed first), no job is launched, no engine is made and nothing
\* is passed to onProgress.
C11_EmptyLadderFails ==
    NothingToEncode =>
        /\ job = <<>>
        /\ engine = <<>>
        /\ contrib = <<>>
        /\ reported = NothingSeen
        /\ mpc \in {"start", "probing", "rejected"}
        /\ Len(ladder) = 0 => mpc # "probing"
        /\ mpc = "rejected" =>
              IF Len(ladder) = 0 THEN err = OtherError("empty")
              ELSE err \in {OtherError("nofit"), OtherError("metadata")}

\* the spec's example: source 320x240, a ladder of 1080p only, rejected
\* because nothing fits, with an onProgress callback given
C11_Witness ==
    /\ ladder = <<L1080>>
    /\ srcW = 320 /\ srcH = 240
    /\ autoFilter
    /\ hasOnProgress
    /\ mpc = "rejected"
    /\ err = OtherError("nofit")

\* the jobs that have an engine
WithEngine == {i \in DOMAIN engine : engine[i] # 0}

\* C12: no two jobs have the same engine instance, a job that executes or
\* has executed has one, and the entries in an engine's file system are
\* those of the one job that owns it.
C12_OwnEngine ==
    /\ \A i, k \in WithEngine : i # k => engine[i] # engine[k]
    /\ \A i \in DOMAIN job : job[i] \in {"exec", "done"} => i \in WithEngine
    /\ \A e \in DOMAIN ns : \A x \in ns[e] : engine[x[2]] = e

\* three jobs execute at the same time in parallel mode
C12_Witness ==
    /\ useParallel
    /\ mpc = "run"
    /\ N = 3
    /\ \A i \in Jobs : job[i] = "exec" /\ Entry("input", i) \in ns[engine[i]]

\* the entries of job i that are in some engine's file system
Remaining(i) == {x \in UNION {ns[e] : e \in DOMAIN ns} : x[2] = i}

\* C13: a job that has ended, by returning or by throwing, has left none of
\* its entries in the engine (a job whose deleteFile call itself threw
\* aside).
C13_CleanupAlways ==
    \A i \in DOMAIN job :
        (job[i] \in {"done", "failed"} /\ i \notin deleteFailed) => Remaining(i) = {}

\* C14: a job whose cleanup met a deleteFile that threw has logged it and
\* returned its output all the same; the next job is started; no job
\* fails and the call is not rejected because of it; and when all jobs have
\* returned the call returns every rendition and the master playlist.
C14_CleanupErrorTolerated ==
    \A i \in deleteFailed :
        /\ i \in warned
        /\ job[i] = "done"
        /\ (~useParallel /\ i < N) => job[i + 1] # "idle"
        /\ Failed = {} => mpc \in {"run", "resolved"}
        /\ (\A k \in Jobs : job[k] = "done") =>
              /\ mpc = "resolved"
              /\ Len(qualities) = N
              /\ qualities[i] = QualityOf(filtered[i])
              /\ Len(masterPlaylistContent) = N
              /\ masterPlaylistContent[i].ref = PlaylistName(filtered[i])

\* the first of three jobs could not delete its files, and all three
\* renditions and the master playlist were returned
C14_Witness ==
    /\ N = 3
    /\ 1 \in deleteFailed
    /\ Remaining(1) # {}
    /\ mpc = "resolved"
    /\ Len(masterPlaylistContent) = 3

\* C15: the contribution recorded for each job lies in [0, 100/N].
C15_ContributionClamped ==
    \A i \in DOMAIN contrib : 0 <= contrib[i] /\ contrib[i] <= FullRange

\* job i has just returned in sequential mode: the loop has reported and
\* nothing has been reported since
JustCompleted(i) ==
    /\ ~useParallel
    /\ hasOnProgress
    /\ i \in DOMAIN job
    /\ job[i] = "done"
    /\ IF i < N THEN job[i + 1] = "load" ELSE mpc = "resolved"

\* C16 as stated: the value reported right after job i (counted from 1
\* here) completes in sequential mode is exactly i/N * 100.
C16_ExactShare ==
    \A i \in DOMAIN job :
        JustCompleted(i) => reported.last[1] * N = i * 100

\* C16 as amended: that value is i/N * 100 rounded to a nearest integer.
C16_RoundedShare ==
    \A i \in DOMAIN job :
        JustCompleted(i) =>
            LET d == reported.last[1] * N - i * 100
            IN  2 * d <= N /\ -2 * d <= N

\* the second of three jobs has just completed: 67 is reported for 66.67
C16_Witness ==
    N = 3 /\ JustCompleted(2) /\ reported.last = <<67>>

\* C17: the master playlist has one stream entry per rendition, in the
\* order of the post-filter ladder in both modes; each is followed by the
\* name of that rendition's playlist file and has RESOLUTION=WxH exactly
\* when the level gives both width and height.
C17_ManifestEntries ==
    mpc = "resolved" =>
        /\ Len(masterPlaylistContent) = N
        /\ \A k \in Jobs :
              LET entry == masterPlaylistContent[k]
                  level == filtered[k]
              IN  /\ entry.name = level.name
                  /\ entry.ref = qualities[k].playlist
                  /\ entry.ref = <<level.name, "_playlist.m3u8">>
                  /\ IF level.width # 0 /\ level.height # 0
                     THEN entry.resolution = <<level.width, level.height>>
                     ELSE entry.resolution = <<>>

\* parallel mode, two levels that give one axis only, the second job
\* completed first
C17_Witness ==
    /\ mpc = "resolved"
    /\ useParallel
    /\ outOfOrder
    /\ filtered = <<LTall, LWide>>
    /\ masterPlaylistContent[1].resolution = <<>>

\* C18: the BANDWIDTH of every stream entry is videoBitrate + audioBitrate,
\* with 128000 for a missing audioBitrate; 800000 and 96000 give 896000.
C18_ManifestBandwidth ==
    mpc = "resolved" =>
        \A k \in 1..Len(masterPlaylistContent) :
            LET level == filtered[k]
                audioRate == IF level.audioBitrate = 0 THEN 128000 ELSE level.audioBitrate
            IN  /\ masterPlaylistContent[k].bandwidth = level.videoBitrate + audioRate
                /\ (level.videoBitrate = 800000 /\ level.audioBitrate = 96000)
                      => masterPlaylistContent[k].bandwidth = 896000

\* a level of 800000 without audioBitrate is in the master playlist with 928000
C18_Witness ==
    /\ mpc = "resolved"
    /\ \E k \in 1..Len(masterPlaylistContent) :
          filtered[k].audioBitrate = 0 /\ masterPlaylistContent[k].bandwidth = 928000

\* C30: in parallel mode, once the orchestrator has failed because a job
\* failed, no step changes what the caller's onProgress has seen.
C30_SilentAfterFailure ==
    [][(useParallel /\ mpc = "rejected" /\ err.kind = "job")
           => reported' = reported]_vars

----------------------------------------------------------------------------
(* The capture: resizeVideo.  Times are in units of 25 ms.                 *)

\* longest source, in units of 25 ms
MaxDuration == 8

\* `duration - 0.1`: 0.1 s in units of 25 ms
EndTolerance == 4

\* `currentTime - lastTime > 0.05`: 0.05 s in units of 25 ms
ReportGap == 2

\* the sources tried: longer than the end tolerance, up to MaxDuration
Durations == (EndTolerance + 1)..MaxDuration

\* no orchestration is running
MQIdle ==
    /\ ladder = <<>>
    /\ srcW = 0
    /\ srcH = 0
    /\ autoFilter = TRUE
    /\ useParallel = FALSE
    /\ hasOnProgress = FALSE
    /\ mpc = "idle"
    /\ filtered = <<>>
    /\ job = <<>>
    /\ contrib = <<>>
    /\ settled = <<>>
    /\ qualities = <<>>
    /\ err = NoError
    /\ reported = NothingSeen
    /\ outOfOrder = FALSE
    /\ engine = <<>>
    /\ ns = <<>>
    /\ deleteFailed = {}
    /\ warned = {}
    /\ masterPlaylistContent = <<>>

\* resolve() and reject() of a promise that is settled already do nothing
Settle(p, outcome) == IF p = "pending" THEN outcome ELSE p

\* Math.round(Math.min((currentTime / duration) * 100, 100))
ProgressPercent(currentTime, dur) ==
    MathRound(Min(currentTime * 100, dur * 100), dur)

\* the test that ends the frame loop and stops the recorder
ReachedEnd(currentTime, dur) == currentTime >= dur - EndTolerance

\* onstop without its final progress update
FinalProgressNone(given, seen, p) == seen

\* part_001 436-439: onstop's final progress update
FinalProgress(given, seen, p) ==
    IF given THEN ObserveCapture(seen, 100, p) ELSE seen

\* mediaRecorder.stop(): a recording recorder becomes inactive and its stop
\* event is queued; on an inactive recorder the call has no effect on the
\* recorder (it throws InvalidStateError or returns, by browser)
StopRecorder ==
    /\ stopCalls' = stopCalls + 1
    /\ IF rec = "recording"
       THEN rec' = "inactive" /\ stopEvt' = TRUE
       ELSE UNCHANGED <<rec, stopEvt>>

\* part_001 223-230: resizeVideo was called and awaits loadVideo
CapCalled ==
    /\ cpc = "loading"
    /\ promise = "pending"
    /\ rec = "inactive"
    /\ startEvt = FALSE
    /\ stopEvt = FALSE
    /\ stopCalls = 0
    /\ loop = "off"
    /\ vTime = 0
    /\ vPaused = TRUE
    /\ vEnded = FALSE
    /\ endedEvt = FALSE
    /\ lastTime = 0
    /\ capSeen = CapNothingSeen
    /\ urls = {"video"}
    /\ tracks = {}
    /\ vBound = TRUE
    /\ audio = "none"
    /\ capErr = "none"
    /\ supportedMimeType = ""
    /\ resolved = NoResult

\* a browser that records WebM, and one that records nothing
Browsers == {{"video/webm"}, {}}

CapInit ==
    /\ MQIdle
    /\ AuxIdle
    /\ CapCalled
    /\ capOnProgress \in BOOLEAN
    /\ duration \in Durations
    /\ optMime = "none"
    /\ optOutput = ""
    /\ isTypeSupported \in Browsers

\* reject(e) of the returned promise: the reason of the first call stays
RejectReason(p, old, e) == IF p = "pending" THEN e ELSE old

\* part_001 198-201: video.onerror of loadVideo revokes the URL and rejects;
\* the await at 230 throws
CapLoadError ==
    /\ cpc = "loading"
    /\ cpc' = "failed"
    /\ promise' = "rejected"
    /\ capErr' = "load"
    /\ urls' = urls \ {"video"}
    /\ UNCHANGED <<capOnProgress, duration, rec, startEvt, stopEvt, stopCalls,
                   loop, vTime, vPaused, vEnded, endedEvt, lastTime, capSeen,
                   tracks, vBound, audio>>
    /\ UNCHANGED mimeVars
    /\ UNCHANGED <<mqVars, auxVars>>

\* MIME_TYPE (part_001 14-39): the types a caller can ask for
MimeTypes ==
    {"video/mp4", "video/webm", "video/webm;codecs=vp9,opus",
     "video/webm;codecs=vp8,opus", "video/x-matroska;codecs=avc1",
     "application/vnd.apple.mpegurl"}

\* part_001 294: options?.mimeType || MIME_TYPE.webm, its mimeType
RequestedMime(opt) == IF opt = "none" THEN "video/webm" ELSE opt

\* the types getSupportedMimeType tries after the preferred one
Fallbacks ==
    <<"video/webm;codecs=vp9,opus", "video/webm;codecs=vp8,opus",
      "video/webm", "video/mp4">>

\* [preferred, ...].filter(Boolean): an empty preferred type is dropped
MimeCandidates(preferred) ==
    (IF preferred = "" THEN <<>> ELSE <<preferred>>) \o Fallbacks

\* what stands for the Error thrown when no candidate is supported
NoSupportedType == ""

RECURSIVE FirstSupported(_, _, _)
\* the for loop: the first candidate from index k on that is supported
FirstSupported(mimeTypes, supported, k) ==
    IF k > Len(mimeTypes) THEN NoSupportedType
    ELSE IF mimeTypes[k] \in supported THEN mimeTypes[k]
    ELSE FirstSupported(mimeTypes, supported, k + 1)

\* the preferred type left out of the candidates
getSupportedMimeTypeFallbacksOnly(preferred, supported) ==
    FirstSupported(Fallbacks, supported, 1)

getSupportedMimeType(preferred, supported) ==
    FirstSupported(MimeCandidates(preferred), supported, 1)

\* what the recorder's setup can come to: no supported MIME type (151); the
\* recorder's constructor throws; start() throws (475-478); or the recorder
\* is recording
RecorderOutcomes == {"nomime", "ctorthrows", "startthrows", "recording"}

\* part_001 294-316, 459-479: the MIME type, the recorder and its handlers,
\* then mediaRecorder.start()
SetupRecorder(outcome) ==
    /\ supportedMimeType' =
           getSupportedMimeType(RequestedMime(optMime), isTypeSupported)
    /\ (outcome = "nomime") <=> (supportedMimeType' = NoSupportedType)
    /\ CASE outcome = "nomime" ->
           /\ cpc' = "failed"
           /\ promise' = "rejected"
           /\ capErr' = "nomime"
           /\ UNCHANGED <<rec, startEvt>>
      [] outcome = "ctorthrows" ->
           /\ cpc' = "failed"
           /\ promise' = "rejected"
           /\ capErr' = "ctor"
           /\ UNCHANGED <<rec, startEvt>>
      [] outcome = "startthrows" ->
           /\ cpc' = "failed"
           /\ promise' = "rejected"
           /\ capErr' = "start"
           /\ UNCHANGED <<rec, startEvt>>
      [] outcome = "recording" ->
           /\ cpc' = "armed"
           /\ rec' = "recording"
           /\ startEvt' = TRUE
           /\ UNCHANGED <<promise, capErr>>

\* how the audio attempt can end: `new AudioContext()` throws, play() of the
\* second element rejects, createMediaElementSource or
\* createMediaStreamDestination throws, the destination has no audio
\* track, or its track is added to the stream
AudioFailures == {"ctxerror", "playrejected", "nodeerror", "notrack"}
AudioResults == AudioFailures \cup {"added"}

\* the audio attempt without its try/catch
AudioThrowsUncaught(result) == result \in {"ctxerror", "playrejected", "nodeerror"}

\* part_001 269-292: whether the audio attempt throws to resizeVideo: its
\* catch logs and goes on
AudioThrows(result) == FALSE

\* part_001 292-316: after the audio attempt
AfterAudio(result, outcome) ==
    IF AudioThrows(result)
    THEN /\ cpc' = "failed"
         /\ promise' = "rejected"
         /\ capErr' = "audio"
         /\ UNCHANGED <<rec, startEvt, supportedMimeType>>
    ELSE SetupRecorder(outcome)

\* part_001 190-196, 231-275: the metadata arrived; geometry, canvas, stream;
\* the audio attempt up to `await sourceElement.play()`, for which a second
\* object URL of the file is created.  When `new AudioContext()` throws
\* the catch is entered at once and the recorder is set up (292-316, 459-479)
CapMetadata(ctx, outcome) ==
    /\ cpc = "loading"
    /\ tracks' = {"canvas"}
    /\ IF ctx = "throws"
       THEN /\ audio' = "ctxerror"
            /\ AfterAudio("ctxerror", outcome)
            /\ UNCHANGED urls
       ELSE /\ audio' = "playing"
            /\ urls' = urls \cup {"audio"}
            /\ cpc' = "audio"
            /\ UNCHANGED <<promise, capErr, rec, startEvt, supportedMimeType>>
    /\ UNCHANGED <<capOnProgress, duration, stopEvt, stopCalls, loop, vTime,
                   vPaused, vEnded, endedEvt, lastTime, capSeen, vBound>>
    /\ UNCHANGED <<optMime, isTypeSupported, optOutput, resolved>>
    /\ UNCHANGED <<mqVars, auxVars>>

\* part_001 275-316, 459-479: play() of the second element settled.  When it
\* resolved the audio nodes are made, the track (if there is one) is added,
\* the second element is paused and unbound; a throw is caught; then the
\* recorder is set up.  The second object URL is not revoked on any path.
AudioSettled(result, outcome) ==
    /\ cpc = "audio"
    /\ result # "ctxerror"
    /\ audio' = result
    /\ tracks' = (IF result = "added" THEN tracks \cup {"audio"} ELSE tracks)
    /\ AfterAudio(result, outcome)
    /\ UNCHANGED <<capOnProgress, duration, stopEvt, stopCalls, loop, vTime,
                   vPaused, vEnded, endedEvt, lastTime, capSeen, urls, vBound>>
    /\ UNCHANGED <<optMime, isTypeSupported, optOutput, resolved>>
    /\ UNCHANGED <<mqVars, auxVars>>

\* part_001 317-335: onstart up to `await playPromise`.  video.play() either
\* starts playback or is refused (the element stays paused and the promise
\* will reject)
OnStart(plays) ==
    /\ cpc = "armed"
    /\ startEvt
    /\ startEvt' = FALSE
    /\ cpc' = "awaitPlay"
    /\ vTime' = 0
    /\ vPaused' = ~plays
    /\ UNCHANGED <<promise, capOnProgress, duration, rec, stopEvt, stopCalls,
                   loop, vEnded, endedEvt, lastTime, capSeen>>
    /\ UNCHANGED resVars
    /\ UNCHANGED mimeVars
    /\ UNCHANGED <<mqVars, auxVars>>

\* part_001 335-342, 404-408: the play promise resolved; the loop's state is
\* set up and drawFrame is scheduled after 100 ms
PlayResolved ==
    /\ cpc = "awaitPlay"
    /\ ~vPaused
    /\ cpc' = "started"
    /\ lastTime' = 0
    /\ loop' = "timer"
    /\ UNCHANGED <<promise, capOnProgress, duration, rec, startEvt, stopEvt,
                   stopCalls, vTime, vPaused, vEnded, endedEvt, capSeen>>
    /\ UNCHANGED resVars
    /\ UNCHANGED mimeVars
    /\ UNCHANGED <<mqVars, auxVars>>

\* part_001 409-413: the play promise rejected; the catch stops the
\* recorder and rejects
PlayRejected ==
    /\ cpc = "awaitPlay"
    /\ vPaused
    /\ cpc' = "caught"
    /\ StopRecorder
    /\ promise' = Settle(promise, "rejected")
    /\ capErr' = RejectReason(promise, capErr, "play")
    /\ UNCHANGED <<capOnProgress, duration, startEvt, loop, vTime, vPaused,
                   vEnded, endedEvt, lastTime, capSeen, urls, tracks, vBound,
                   audio>>
    /\ UNCHANGED mimeVars
    /\ UNCHANGED <<mqVars, auxVars>>

\* part_001 344-402: one run of drawFrame, from the timer or an animation frame
DrawFrame ==
    /\ loop \in {"timer", "raf"}
    /\ LET currentTime == vTime
       IN  IF ReachedEnd(currentTime, duration)
           THEN /\ StopRecorder
                /\ loop' = "stopped"
                /\ UNCHANGED <<lastTime, capSeen>>
           ELSE IF vPaused \/ vEnded
           THEN /\ loop' = "quit"
                /\ UNCHANGED <<rec, stopEvt, stopCalls, lastTime, capSeen>>
           ELSE /\ loop' = "raf"
                /\ IF capOnProgress /\ duration > 0
                      /\ (currentTime - lastTime > ReportGap
                          \/ ReachedEnd(currentTime, duration))
                   THEN /\ capSeen' = ObserveCapture(capSeen, ProgressPercent(currentTime, duration), promise)
                        /\ lastTime' = currentTime
                   ELSE UNCHANGED <<lastTime, capSeen>>
                /\ UNCHANGED <<rec, stopEvt, stopCalls>>
    /\ UNCHANGED <<cpc, promise, capOnProgress, duration, startEvt, vTime,
                   vPaused, vEnded, endedEvt>>
    /\ UNCHANGED resVars
    /\ UNCHANGED mimeVars
    /\ UNCHANGED <<mqVars, auxVars>>

\* the element plays: the playback position moves on by 25 ms; at the end of
\* the source the element has ended playback and its ended event is queued.
\* The play promise is resolved when playback starts, so the handler's
\* continuation runs before the position has moved noticeably.
Advance ==
    /\ cpc = "started"
    /\ ~vPaused
    /\ ~vEnded
    /\ vTime < duration
    /\ vTime' = vTime + 1
    /\ vEnded' = (vTime + 1 = duration)
    /\ endedEvt' = (vTime + 1 = duration)
    /\ UNCHANGED <<cpc, promise, capOnProgress, duration, rec, startEvt, stopEvt,
                   stopCalls, loop, vPaused, lastTime, capSeen>>
    /\ UNCHANGED resVars
    /\ UNCHANGED mimeVars
    /\ UNCHANGED <<mqVars, auxVars>>

\* playback is paused from outside the library (by the browser or the user)
ExternalPause ==
    /\ cpc \in {"awaitPlay", "started"}
    /\ ~vPaused
    /\ ~vEnded
    /\ vPaused' = TRUE
    /\ UNCHANGED <<cpc, promise, capOnProgress, duration, rec, startEvt, stopEvt,
                   stopCalls, loop, vTime, vEnded, endedEvt, lastTime, capSeen>>
    /\ UNCHANGED resVars
    /\ UNCHANGED mimeVars
    /\ UNCHANGED <<mqVars, auxVars>>

\* part_001 465-468: the element's ended task: paused becomes true and
\* video.onended stops the recorder
VideoEnded ==
    /\ endedEvt
    /\ endedEvt' = FALSE
    /\ vPaused' = TRUE
    /\ StopRecorder
    /\ UNCHANGED <<cpc, promise, capOnProgress, duration, startEvt, loop, vTime,
                   vEnded, lastTime, capSeen>>
    /\ UNCHANGED resVars
    /\ UNCHANGED mimeVars
    /\ UNCHANGED <<mqVars, auxVars>>

\* MIME_TYPE (part_001 14-39): the extension that goes with a type
ExtensionOf(type) ==
    IF type = "video/mp4" THEN "mp4"
    ELSE IF type = "video/x-matroska;codecs=avc1" THEN "mkv"
    ELSE IF type = "application/vnd.apple.mpegurl" THEN "m3u8"
    ELSE "webm"

\* part_001 442: options?.output || OUTPUT_TYPE.file
OutputOption(output) == IF output = "" THEN "file" ELSE output

\* part_001 157-164: blobToFile(blob, mimeType), the name ending in
\* mimeType.extension and the type being mimeType.mimeType
blobToFile(blobType, mimeType) ==
    [kind |-> "file", type |-> mimeType, extension |-> ExtensionOf(mimeType)]

\* part_001 419, 442-453: the value for the output asked for; the blob has
\* the recorder's type and the file is made from the type asked for
ResultOf(output, requested, recorded) ==
    IF output = "file" THEN blobToFile(recorded, requested)
    ELSE [kind |-> output, type |-> recorded, extension |-> ""]

\* resolve(value): the first settlement of the promise counts
ResolveWith(p, old, value) == IF p = "pending" THEN value ELSE old

\* part_001 169-176, 448: blobToBase64 is reading the blob
Reading(old, recorded) ==
    IF old.kind = "none"
    THEN [kind |-> "reading", type |-> recorded, extension |-> ""]
    ELSE old

\* part_001 416-457: onstop.  video.pause(); the file's object URL is
\* revoked; video.src = "" resets the element (position 0, its queued
\* events dropped); the stream's tracks are stopped; the final progress
\* update; resolve
OnStop ==
    /\ stopEvt
    /\ stopEvt' = FALSE
    /\ vPaused' = TRUE
    /\ urls' = urls \ {"video"}
    /\ vBound' = FALSE
    /\ tracks' = {}
    /\ UNCHANGED <<audio, capErr>>
    /\ vTime' = 0
    /\ vEnded' = FALSE
    /\ endedEvt' = FALSE
    /\ capSeen' = FinalProgress(capOnProgress, capSeen, promise)
    /\ IF OutputOption(optOutput) = "base64"
       THEN /\ resolved' = Reading(resolved, supportedMimeType)
            /\ UNCHANGED promise
       ELSE /\ resolved' = ResolveWith(promise, resolved,
                                       ResultOf(OutputOption(optOutput),
                                                RequestedMime(optMime),
                                                supportedMimeType))
            /\ promise' = Settle(promise, "resolved")
    /\ UNCHANGED <<cpc, capOnProgress, duration, rec, startEvt, stopCalls, loop,
                   lastTime>>
    /\ UNCHANGED <<optMime, isTypeSupported, supportedMimeType, optOutput>>
    /\ UNCHANGED <<mqVars, auxVars>>

\* part_001 459-462: the recorder fails: onerror rejects; the recorder
\* becomes inactive and its stop event follows
RecorderError ==
    /\ rec = "recording"
    /\ rec' = "inactive"
    /\ stopEvt' = TRUE
    /\ promise' = Settle(promise, "rejected")
    /\ capErr' = RejectReason(promise, capErr, "recorder")
    /\ UNCHANGED <<cpc, capOnProgress, duration, startEvt, stopCalls, loop, vTime,
                   vPaused, vEnded, endedEvt, lastTime, capSeen, urls, tracks,
                   vBound, audio>>
    /\ UNCHANGED mimeVars
    /\ UNCHANGED <<mqVars, auxVars>>

CapNext ==
    \/ CapLoadError
    \/ \E ctx \in {"throws", "ok"} : \E o \in RecorderOutcomes : CapMetadata(ctx, o)
    \/ \E result \in AudioResults : \E o \in RecorderOutcomes : AudioSettled(result, o)
    \/ \E plays \in BOOLEAN : OnStart(plays)
    \/ PlayResolved
    \/ PlayRejected
    \/ DrawFrame
    \/ Advance
    \/ ExternalPause
    \/ VideoEnded
    \/ OnStop
    \/ RecorderError

SpecCapture == CapInit /\ [][CapNext]_vars

\* What the code's scheduling guarantees: a timer or animation frame that is
\* pending runs, a queued stop or ended event is delivered, a play promise
\* settles.  Nothing makes the recorder's start event arrive, the playback
\* position move on, or a failure happen.
FairCapture ==
    /\ CapInit /\ [][CapNext]_vars
    /\ WF_vars(DrawFrame)
    /\ WF_vars(OnStop)
    /\ WF_vars(VideoEnded)
    /\ WF_vars(PlayResolved)
    /\ WF_vars(PlayRejected)

----------------------------------------------------------------------------
(* Claims about the capture *)

C6_StopExactlyOnce ==
    /\ stopCalls <= 1
    /\ promise = "resolved" => stopCalls = 1

\* C7: a capture that is recording is eventually settled, also when
\* playback stops advancing.
C7_RecordingSettles ==
    (cpc = "started" /\ rec = "recording") ~> (promise # "pending")

\* C8: once the frame loop has seen playback paused during Recording and
\* ended, the recorder has been stopped.
C8_PauseStopsRecorder ==
    loop = "quit" => rec # "recording"

\* C9: after start() the capture goes on (the start handler's work is done)
\* or is settled, also when the recorder's start event never arrives.
C9_StartAcknowledgedOrTimeout ==
    (cpc = "armed" /\ promise = "pending") ~> (cpc # "armed" \/ promise # "pending")

\* C19: when a capture has completed every track of the stream is stopped,
\* the video element is paused and unbound, and every object URL created
\* for the capture, the one of the audio attempt included, is revoked.
C19_ResourcesReleased ==
    promise = "resolved" =>
        /\ tracks = {}
        /\ vPaused
        /\ ~vBound
        /\ urls = {}

\* the audio attempt failed and the recorder's setup did not
AudioOnlyFailed == audio \in AudioFailures /\ capErr \notin {"nomime", "ctor", "start"}

\* C20: a failed audio attempt is never why the capture fails: unless the
\* recorder's own setup fails, the recorder has been started, on a stream
\* whose only track is the canvas track.
C20_AudioFailureNotFatal ==
    /\ capErr # "audio"
    /\ AudioOnlyFailed =>
          /\ cpc \in {"armed", "awaitPlay", "started", "caught"}
          /\ rec = "recording" => tracks = {"canvas"}
          /\ (rec = "inactive" /\ stopCalls = 0) => capErr = "recorder"

\* play() of the second element rejected and the recorder records the
\* canvas track alone
C20_Witness ==
    /\ audio = "playrejected"
    /\ rec = "recording"
    /\ cpc = "started"
    /\ tracks = {"canvas"}

\* C29: once the promise of a capture is rejected onProgress is not called
\* again, and a capture that was rejected has not reported 100.
C29_FailedIsTerminal ==
    promise = "rejected" => (~capSeen.late /\ capSeen.last # <<100>>)

----------------------------------------------------------------------------
(* The recorder's type: the setup of a capture for every requested type    *)
(* and every set of types the browser's MediaRecorder supports             *)

MimeInit ==
    /\ MQIdle
    /\ AuxIdle
    /\ CapCalled
    /\ capOnProgress = FALSE
    /\ duration = EndTolerance + 1
    /\ optMime \in {"none"} \cup MimeTypes
    /\ optOutput = ""
    /\ isTypeSupported \in SUBSET MimeTypes

MimeNext ==
    \/ CapLoadError
    \/ \E ctx \in {"throws", "ok"} : \E o \in RecorderOutcomes : CapMetadata(ctx, o)
    \/ \E result \in AudioResults : \E o \in RecorderOutcomes : AudioSettled(result, o)

SpecMime == MimeInit /\ [][MimeNext]_vars

\* the recorder's setup has been reached
SetupDone == cpc \notin {"loading", "audio"} /\ capErr \notin {"load", "audio"}

\* C21: the recorder's type is the first supported entry of the list
\* [requested, vp9 WebM, vp8 WebM, WebM, MP4], so the requested type whenever
\* it is supported; the capture fails when no entry is supported.
C21_MimeSelection ==
    LET requested == RequestedMime(optMime)
        list == <<requested>> \o Fallbacks
    IN  SetupDone =>
          IF \E k \in 1..Len(list) : list[k] \in isTypeSupported
          THEN /\ \E k \in 1..Len(list) :
                     /\ list[k] \in isTypeSupported
                     /\ \A j \in 1..(k - 1) : list[j] \notin isTypeSupported
                     /\ supportedMimeType = list[k]
               /\ requested \in isTypeSupported => supportedMimeType = requested
               /\ capErr # "nomime"
          ELSE promise = "rejected" /\ capErr = "nomime"

\* Matroska was asked for and is not supported, nor is vp9 WebM: the
\* recorder records vp8 WebM
C21_Witness ==
    /\ optMime = "video/x-matroska;codecs=avc1"
    /\ isTypeSupported = {"video/webm;codecs=vp8,opus", "video/webm", "video/mp4"}
    /\ supportedMimeType = "video/webm;codecs=vp8,opus"
    /\ rec = "recording"

----------------------------------------------------------------------------
(* recommendResizeMethod (helper.ts 51-145).  Durations are in half seconds *)

\* longest duration probed, in half seconds
MaxHalfSeconds == 70

\* helper.ts 88: the 30 s below which a video is short, in half seconds
ShortLimit == 60

\* the test for a short video with `<=` in the place of `<`
IsShortInclusive(d) == d <= ShortLimit

\* helper.ts 88: metadata.duration < 30
IsShort(d) == d < ShortLimit

\* helper.ts 69-144: the method recommended once the metadata is known
recommendResizeMethod(hls, d) ==
    IF hls THEN "resizeVideoToHLS"
    ELSE IF IsShort(d) THEN "resizeVideo"
    ELSE "fastResizeVideo"

HelperInit ==
    /\ MQIdle
    /\ CapIdle
    /\ ToolIdle
    /\ BatchIdle
    /\ GeoIdle
    /\ rpc = "probing"
    /\ needsHLS \in BOOLEAN
    /\ metaDuration = -1
    /\ method = ""

\* helper.ts 31-34, 59: the probe's video fires error; the await throws
ProbeError ==
    /\ rpc = "probing"
    /\ rpc' = "rejected"
    /\ UNCHANGED <<needsHLS, metaDuration, method>>
    /\ UNCHANGED <<mqVars, capVars, batchVars, geoVars, toolVars>>

\* helper.ts 21-29, 59-144: the metadata arrived with duration d; the
\* function returns its recommendation
ProbeLoaded(d) ==
    /\ rpc = "probing"
    /\ rpc' = "returned"
    /\ metaDuration' = d
    /\ method' = recommendResizeMethod(needsHLS, d)
    /\ UNCHANGED needsHLS
    /\ UNCHANGED <<mqVars, capVars, batchVars, geoVars, toolVars>>

HelperNext ==
    \/ ProbeError
    \/ \E d \in 0..MaxHalfSeconds : ProbeLoaded(d)

SpecHelper == HelperInit /\ [][HelperNext]_vars

\* C27: when HLS output is needed resizeVideoToHLS is recommended whatever
\* the duration; otherwise resizeVideo below 30 s and fastResizeVideo from
\* 30 s on.
C27_Recommendation ==
    rpc = "returned" =>
        /\ needsHLS => method = "resizeVideoToHLS"
        /\ (~needsHLS /\ metaDuration < 60) => method = "resizeVideo"
        /\ (~needsHLS /\ metaDuration >= 60) => method = "fastResizeVideo"

\* a video of exactly 30 s without HLS gets fastResizeVideo
C27_Witness ==
    rpc = "returned" /\ ~needsHLS /\ metaDuration = 60 /\ method = "fastResizeVideo"

----------------------------------------------------------------------------
(* resizeVideos (part_001 485-509): the files one after the other.  The    *)
(* resizeVideo call of a file is seen from outside: it reports progress    *)
(* through the onProgress it was given and resolves or rejects.            *)

\* most files in one batch
MaxFiles == 4

\* the percentages a running capture reports before its last
CapturePercents == {0, 25, 50, 75}

\* what resizeVideo resolves with for the k-th file
OutputOf(k) == <<"resized", k>>

\* results.unshift in the place of results.push
Unshift(arr, v) == <<v>> \o arr

\* part_001 505: results.push(result)
Push(arr, v) == Append(arr, v)

\* part_001 497-502: the onProgress handed to the capture of the k-th file
\* (i = k - 1), called with p: Math.round(((i + p / 100) / files.length) * 100)
\* goes to the caller if it gave an onProgress
BatchProgress(k, p) ==
    IF bOnProgress THEN MathRound((k - 1) * 100 + p, nFiles) ELSE batchSeen

BatchInit ==
    /\ MQIdle
    /\ CapIdle
    /\ ToolIdle
    /\ HelperIdle
    /\ GeoIdle
    /\ bpc = "called"
    /\ nFiles \in 0..MaxFiles
    /\ bOnProgress \in BOOLEAN
    /\ capOf = [k \in 1..nFiles |-> "none"]
    /\ results = <<>>
    /\ batchSeen = -1

\* part_001 489-495: the call up to the first await: resizeVideo of the
\* first file is called, or the empty array is returned
BatchStart ==
    /\ bpc = "called"
    /\ IF nFiles = 0
       THEN bpc' = "resolved" /\ UNCHANGED capOf
       ELSE bpc' = "run" /\ capOf' = [capOf EXCEPT ![1] = "running"]
    /\ UNCHANGED <<nFiles, bOnProgress, results, batchSeen>>
    /\ UNCHANGED <<mqVars, capVars, helperVars, geoVars, toolVars>>

\* part_001 386-402, 497-502: the frame loop of the running capture reports
\* p.  After a recorder error the loop of a rejected capture still runs.
CaptureReports(k, p) ==
    /\ capOf[k] \in {"running", "rejected"}
    /\ batchSeen' = BatchProgress(k, p)
    /\ UNCHANGED <<bpc, nFiles, bOnProgress, capOf, results>>
    /\ UNCHANGED <<mqVars, capVars, helperVars, geoVars, toolVars>>

\* part_001 416-457, 495-508: onstop of the k-th capture reports 100 and
\* resolves; the loop pushes the result and calls resizeVideo for the next
\* file, or returns the results
CaptureResolves(k) ==
    /\ capOf[k] = "running"
    /\ batchSeen' = BatchProgress(k, 100)
    /\ results' = Push(results, OutputOf(k))
    /\ IF k < nFiles
       THEN /\ capOf' = [capOf EXCEPT ![k] = "resolved", ![k + 1] = "running"]
            /\ UNCHANGED bpc
       ELSE /\ capOf' = [capOf EXCEPT ![k] = "resolved"]
            /\ bpc' = "resolved"
    /\ UNCHANGED <<nFiles, bOnProgress>>
    /\ UNCHANGED <<mqVars, capVars, helperVars, geoVars, toolVars>>

\* part_001 495: the promise of the k-th capture is rejected; the await
\* throws out of the loop and of resizeVideos
CaptureRejects(k) ==
    /\ capOf[k] = "running"
    /\ capOf' = [capOf EXCEPT ![k] = "rejected"]
    /\ bpc' = "rejected"
    /\ UNCHANGED <<nFiles, bOnProgress, results, batchSeen>>
    /\ UNCHANGED <<mqVars, capVars, helperVars, geoVars, toolVars>>

\* part_001 416-439: onstop of a capture that was rejected while its
\* recorder was recording: it reports 100 and its resolve does nothing
CaptureStopsLate(k) ==
    /\ capOf[k] = "rejected"
    /\ capOf' = [capOf EXCEPT ![k] = "stopped"]
    /\ batchSeen' = BatchProgress(k, 100)
    /\ UNCHANGED <<bpc, nFiles, bOnProgress, results>>
    /\ UNCHANGED <<mqVars, capVars, helperVars, geoVars, toolVars>>

BatchNext ==
    \/ BatchStart
    \/ \E k \in 1..nFiles : \E p \in CapturePercents : CaptureReports(k, p)
    \/ \E k \in 1..nFiles : CaptureResolves(k)
    \/ \E k \in 1..nFiles : CaptureRejects(k)
    \/ \E k \in 1..nFiles : CaptureStopsLate(k)

SpecBatch == BatchInit /\ [][BatchNext]_vars

\* C28: the files are processed one after the other: the capture of a file
\* is started only when those of all files before it have resolved; the
\* k-th result is the output of the k-th file; a capture that fails fails
\* the batch and no later file is started.
C28_BatchSequential ==
    /\ \A k \in 1..nFiles :
          capOf[k] # "none" => \A j \in 1..(k - 1) : capOf[j] = "resolved"
    /\ \A k \in 1..Len(results) : results[k] = OutputOf(k)
    /\ Len(results) = Cardinality({k \in 1..nFiles : capOf[k] = "resolved"})
    /\ bpc = "resolved" => Len(results) = nFiles
    /\ \A k \in 1..nFiles :
          capOf[k] \in {"rejected", "stopped"} =>
              /\ bpc = "rejected"
              /\ \A j \in (k + 1)..nFiles : capOf[j] = "none"

\* four files: the first two resolved, the third failed and the fourth was
\* never started
C28_Witness ==
    /\ nFiles = 4
    /\ bpc = "rejected"
    /\ results = <<OutputOf(1), OutputOf(2)>>
    /\ capOf = <<"resolved", "resolved", "rejected", "none">>

----------------------------------------------------------------------------
(* JavaScript numbers.  The geometry is computed in IEEE 754 doubles; TLC   *)
(* has 32-bit integers, so a significand is kept as a natural number of    *)
(* several limbs.                                                          *)

\* a natural number of any size: its digits in base 2^15, the lowest first,
\* without leading zero digits; <<>> is 0
Base == 2 ^ 15

RECURSIVE BigOf(_)
BigOf(n) == IF n = 0 THEN <<>> ELSE <<n % Base>> \o BigOf(n \div Base)

RECURSIVE BigTrim(_)
BigTrim(a) ==
    IF a # <<>> /\ a[Len(a)] = 0 THEN BigTrim(SubSeq(a, 1, Len(a) - 1)) ELSE a

Limb(a, i) == IF i <= Len(a) THEN a[i] ELSE 0

RECURSIVE BigCmpFrom(_, _, _)
BigCmpFrom(a, b, i) ==
    IF i = 0 THEN 0
    ELSE IF a[i] > b[i] THEN 1
    ELSE IF a[i] < b[i] THEN -1
    ELSE BigCmpFrom(a, b, i - 1)

\* -1, 0, 1 as a < b, a = b, a > b
BigCmp(a, b) ==
    IF Len(a) > Len(b) THEN 1
    ELSE IF Len(a) < Len(b) THEN -1
    ELSE BigCmpFrom(a, b, Len(a))

RECURSIVE BigAddFrom(_, _, _, _)
BigAddFrom(a, b, i, carry) ==
    IF i > Len(a) /\ i > Len(b)
    THEN (IF carry = 0 THEN <<>> ELSE <<carry>>)
    ELSE LET t == Limb(a, i) + Limb(b, i) + carry
         IN  <<t % Base>> \o BigAddFrom(a, b, i + 1, t \div Base)

BigAdd(a, b) == BigAddFrom(a, b, 1, 0)

RECURSIVE BigSubFrom(_, _, _, _)
BigSubFrom(a, b, i, borrow) ==
    IF i > Len(a) THEN <<>>
    ELSE LET t == a[i] - Limb(b, i) - borrow
         IN  IF t < 0 THEN <<t + Base>> \o BigSubFrom(a, b, i + 1, 1)
             ELSE <<t>> \o BigSubFrom(a, b, i + 1, 0)

\* a - b for a >= b
BigSub(a, b) == BigTrim(BigSubFrom(a, b, 1, 0))

RECURSIVE BigMulSmallFrom(_, _, _, _)
BigMulSmallFrom(a, m, i, carry) ==
    IF i > Len(a) THEN BigOf(carry)
    ELSE LET t == a[i] * m + carry
         IN  <<t % Base>> \o BigMulSmallFrom(a, m, i + 1, t \div Base)

\* a * m for 0 <= m < Base
BigMulSmall(a, m) == IF m = 0 THEN <<>> ELSE BigMulSmallFrom(a, m, 1, 0)

\* a * Base^k
BigShiftLimbs(a, k) == IF a = <<>> THEN <<>> ELSE [i \in 1..k |-> 0] \o a

RECURSIVE BigMulFrom(_, _, _)
BigMulFrom(a, b, i) ==
    IF i > Len(b) THEN <<>>
    ELSE BigAdd(BigMulSmall(a, b[i]), BigShiftLimbs(BigMulFrom(a, b, i + 1), 1))

BigMul(a, b) == BigMulFrom(a, b, 1)

\* a * 2^k
BigShl(a, k) == BigShiftLimbs(BigMulSmall(a, 2 ^ (k % 15)), k \div 15)

BigPow2(k) == BigShl(<<1>>, k)

RECURSIVE BitLen(_)
BitLen(n) == IF n = 0 THEN 0 ELSE 1 + BitLen(n \div 2)

\* the number of binary digits of a
BigBitLen(a) == IF a = <<>> THEN 0 ELSE 15 * (Len(a) - 1) + BitLen(a[Len(a)])

RECURSIVE DivSmallFrom(_, _, _, _)
\* the digits i down to 1 of a divided by m, rem being what is left of
\* the digits above i
DivSmallFrom(a, m, i, rem) ==
    IF i = 0 THEN <<>>
    ELSE DivSmallFrom(a, m, i - 1, (rem * Base + a[i]) % m)
         \o <<(rem * Base + a[i]) \div m>>

\* a \div m for 0 < m < Base
BigDivSmall(a, m) == BigTrim(DivSmallFrom(a, m, Len(a), 0))

\* a \div 2^k
BigShr(a, k) ==
    IF k \div 15 >= Len(a) THEN <<>>
    ELSE BigDivSmall(SubSeq(a, k \div 15 + 1, Len(a)), 2 ^ (k % 15))

RECURSIVE Digit(_, _, _, _)
\* the largest q < Base with q * d <= r, found from binary digit b down
Digit(r, d, b, q) ==
    IF b < 0 THEN q
    ELSE IF BigCmp(BigMulSmall(d, q + 2 ^ b), r) <= 0
    THEN Digit(r, d, b - 1, q + 2 ^ b)
    ELSE Digit(r, d, b - 1, q)

\* one more digit q in front of the quotient of qr
WithDigit(qr, q) == [q |-> qr.q \o <<q>>, r |-> qr.r]

RECURSIVE DivLimbs(_, _, _, _)
RECURSIVE DivStep(_, _, _, _, _)
\* long division in base 2^15: the digits i down to 1 of the quotient of n
\* by d, r being what is left of the digits of n above i
DivLimbs(n, d, i, r) ==
    IF i = 0 THEN [q |-> <<>>, r |-> r]
    ELSE DivStep(n, d, i, BigTrim(<<n[i]>> \o r),
                 IF BigCmp(BigTrim(<<n[i]>> \o r), d) < 0 THEN 0
                 ELSE Digit(BigTrim(<<n[i]>> \o r), d, 14, 0))

DivStep(n, d, i, cur, q) ==
    WithDigit(DivLimbs(n, d, i - 1, BigSub(cur, BigMulSmall(d, q))), q)

\* quotient and remainder of n by d > 0
BigDivMod(n, d) ==
    [q |-> BigTrim(DivLimbs(n, d, Len(n), <<>>).q),
     r |-> DivLimbs(n, d, Len(n), <<>>).r]

\* the binary digits of a double's significand
Precision == 53

\* a number is NaN, an infinity, or s * m * 2^e with s the sign and m = 0 or
\* 2^52 <= m < 2^53.  (The geometry stays far from the largest and the
\* smallest doubles: overflow and subnormal numbers are left out.)
Num(s, m, e) == [k |-> "num", s |-> s, m |-> m, e |-> e]
Zero(s) == Num(s, <<>>, 0)
Inf(s) == [k |-> "inf", s |-> s, m |-> <<>>, e |-> 0]
NaN == [k |-> "nan", s |-> 1, m |-> <<>>, e |-> 0]

IsZero(x) == x.k = "num" /\ x.m = <<>>

\* the significand m, which may have reached 2^53 by rounding up
Normal(s, m, e) ==
    IF BigBitLen(m) > Precision THEN Num(s, BigPow2(Precision - 1), e + 1)
    ELSE Num(s, m, e)

\* round to nearest, ties to even: q is the significand cut off, half is
\* -1, 0, 1 as what was cut off is below, at or above one half
RoundUp(s, q, e, half) ==
    Normal(s, IF half > 0 \/ (half = 0 /\ q[1] % 2 = 1)
              THEN BigAdd(q, <<1>>) ELSE q, e)

\* n * 2^e with the lowest k binary digits of n rounded away
RoundDrop(s, n, e, k, q) ==
    RoundUp(s, q, e + k,
            BigCmp(BigShl(BigSub(n, BigShl(q, k)), 1), BigPow2(k)))

\* the double nearest to s * n * 2^e
FromBig(s, n, e) ==
    IF n = <<>> THEN Zero(s)
    ELSE IF BigBitLen(n) <= Precision
    THEN Num(s, BigShl(n, Precision - BigBitLen(n)),
             e - (Precision - BigBitLen(n)))
    ELSE RoundDrop(s, n, e, BigBitLen(n) - Precision,
                   BigShr(n, BigBitLen(n) - Precision))

\* n / (d * 2^e), quotient and remainder
QuotAt(n, d, e) ==
    IF e >= 0 THEN BigDivMod(n, BigShl(d, e)) ELSE BigDivMod(BigShl(n, -e), d)

RoundQuot(s, d, e, qr) ==
    RoundUp(s, qr.q, e,
            BigCmp(BigShl(qr.r, 1), IF e >= 0 THEN BigShl(d, e) ELSE d))

\* the quotient at e has 53 or 54 digits: with 54 the exponent is e + 1
RoundAt(s, n, d, e, qr) ==
    IF BigBitLen(qr.q) > Precision
    THEN RoundQuot(s, d, e + 1, QuotAt(n, d, e + 1))
    ELSE RoundQuot(s, d, e, qr)

\* the double nearest to s * n / d, for n > 0 and d > 0
RoundRat(s, n, d) ==
    RoundAt(s, n, d, BigBitLen(n) - BigBitLen(d) - Precision,
            QuotAt(n, d, BigBitLen(n) - BigBitLen(d) - Precision))

\* x * 2^k
Scale(x, k) == IF x.k = "num" /\ x.m # <<>> THEN Num(x.s, x.m, x.e + k) ELSE x

Abs(i) == IF i < 0 THEN -i ELSE i
Sign(i) == IF i < 0 THEN -1 ELSE 1

\* the number of an integer
FromInt(i) == FromBig(Sign(i), BigOf(Abs(i)), 0)

FNeg(x) == IF x.k = "nan" THEN x ELSE [x EXCEPT !.s = -x.s]

\* x / y
FDiv(x, y) ==
    IF x.k = "nan" \/ y.k = "nan" THEN NaN
    ELSE IF x.k = "inf" THEN (IF y.k = "inf" THEN NaN ELSE Inf(x.s * y.s))
    ELSE IF y.k = "inf" THEN Zero(x.s * y.s)
    ELSE IF IsZero(y) THEN (IF IsZero(x) THEN NaN ELSE Inf(x.s * y.s))
    ELSE IF IsZero(x) THEN Zero(x.s * y.s)
    ELSE Scale(RoundRat(x.s * y.s, x.m, y.m), x.e - y.e)

\* x * y
FMul(x, y) ==
    IF x.k = "nan" \/ y.k = "nan" THEN NaN
    ELSE IF x.k = "inf" \/ y.k = "inf"
         THEN (IF IsZero(x) \/ IsZero(y) THEN NaN ELSE Inf(x.s * y.s))
    ELSE FromBig(x.s * y.s, BigMul(x.m, y.m), x.e + y.e)

\* s1 * a + s2 * b, times 2^e; c compares a with b
AddAligned(s1, a, s2, b, e, c) ==
    IF s1 = s2 THEN FromBig(s1, BigAdd(a, b), e)
    ELSE IF c = 0 THEN Zero(1)
    ELSE IF c > 0 THEN FromBig(s1, BigSub(a, b), e)
    ELSE FromBig(s2, BigSub(b, a), e)

\* x + y for finite numbers other than 0, e being the lower exponent
AddAt(x, y, e) ==
    AddAligned(x.s, BigShl(x.m, x.e - e), y.s, BigShl(y.m, y.e - e), e,
               BigCmp(BigShl(x.m, x.e - e), BigShl(y.m, y.e - e)))

\* x + y
FAdd(x, y) ==
    IF x.k = "nan" \/ y.k = "nan" THEN NaN
    ELSE IF x.k = "inf"
         THEN (IF y.k = "inf" /\ y.s # x.s THEN NaN ELSE x)
    ELSE IF y.k = "inf" THEN y
    ELSE IF IsZero(x) /\ IsZero(y) THEN Zero(IF x.s = y.s THEN x.s ELSE 1)
    ELSE IF IsZero(x) THEN y
    ELSE IF IsZero(y) THEN x
    ELSE AddAt(x, y, IF x.e < y.e THEN x.e ELSE y.e)

\* x - y
FSub(x, y) == FAdd(x, FNeg(y))

\* -1, 0, 1 as x < y, x = y, x > y, for numbers that are not NaN
FCmp(x, y) ==
    IF IsZero(x) /\ IsZero(y) THEN 0
    ELSE IF x.s # y.s /\ ~IsZero(x) /\ ~IsZero(y) THEN x.s
    ELSE IF IsZero(x) THEN -y.s
    ELSE IF IsZero(y) THEN x.s
    ELSE IF x.k = "inf" THEN (IF y.k = "inf" THEN 0 ELSE x.s)
    ELSE IF y.k = "inf" THEN -x.s
    ELSE IF x.e > y.e THEN x.s
    ELSE IF x.e < y.e THEN -x.s
    ELSE x.s * BigCmp(x.m, y.m)

\* x > y, x >= y, x === y: false when either is NaN
FGt(x, y) == x.k # "nan" /\ y.k # "nan" /\ FCmp(x, y) > 0
FGe(x, y) == x.k # "nan" /\ y.k # "nan" /\ FCmp(x, y) >= 0
FEq(x, y) == x.k # "nan" /\ y.k # "nan" /\ FCmp(x, y) = 0

\* floor(a + 1/2) for x = s * a, -ceil(a - 1/2) when s < 0; qr is the
\* quotient and remainder of 2m + 2^k by 2^(k + 1) for a = m / 2^k
RoundHalfUp(s, qr) ==
    FromBig(s, IF s < 0 /\ qr.r = <<>> THEN BigSub(qr.q, <<1>>) ELSE qr.q, 0)

\* Math.trunc(x) in the place of Math.round(x): the fraction is dropped
MathTruncF(x) ==
    IF x.k # "num" \/ x.m = <<>> \/ x.e >= 0 THEN x
    ELSE FromBig(x.s, BigShr(x.m, -x.e), 0)

\* Math.round(x): the integer nearest to x, a half going up
MathRoundF(x) ==
    IF x.k # "num" \/ x.m = <<>> \/ x.e >= 0 THEN x
    ELSE RoundHalfUp(x.s, BigDivMod(BigAdd(BigShl(x.m, 1), BigPow2(-x.e)),
                                    BigPow2(1 - x.e)))

----------------------------------------------------------------------------
(* The geometry of a capture: the target size (part_001 235-246) and       *)
(* calculateDimensions (part_001 46-123)                                   *)

Geometry(cw, ch, dx, dy, dw, dh) ==
    [canvasWidth |-> cw, canvasHeight |-> ch, drawX |-> dx, drawY |-> dy,
     drawWidth |-> dw, drawHeight |-> dh]

\* part_001 74-100: mode "cover"
Cover(sourceRatio, targetRatio, tw, th) ==
    IF FGt(sourceRatio, targetRatio)
    THEN Geometry(tw, th,
                  FDiv(FSub(tw, FMul(th, sourceRatio)), FromInt(2)), Zero(1),
                  FMul(th, sourceRatio), th)
    ELSE Geometry(tw, th,
                  Zero(1), FDiv(FSub(th, FDiv(tw, sourceRatio)), FromInt(2)),
                  tw, FDiv(tw, sourceRatio))

\* part_001 102-122: mode "contain", and every mode that is neither
\* "stretch" nor "cover"
Contain(sourceRatio, targetRatio, tw, th) ==
    IF FGt(sourceRatio, targetRatio)
    THEN Geometry(tw, FDiv(tw, sourceRatio), Zero(1), Zero(1),
                  tw, FDiv(tw, sourceRatio))
    ELSE Geometry(FMul(th, sourceRatio), th, Zero(1), Zero(1),
                  FMul(th, sourceRatio), th)

\* "stretch" keeping the source's ratio, as "contain" does
StretchKeepingRatio(sourceRatio, targetRatio, tw, th) ==
    Contain(sourceRatio, targetRatio, tw, th)

\* part_001 63-72: mode "stretch"
Stretch(sourceRatio, targetRatio, tw, th) ==
    Geometry(tw, th, Zero(1), Zero(1), tw, th)

\* part_001 46-123 after the two ratios are computed
DimensionsFor(sourceRatio, targetRatio, tw, th, mode) ==
    IF mode = "stretch" THEN Stretch(sourceRatio, targetRatio, tw, th)
    ELSE IF mode = "cover" THEN Cover(sourceRatio, targetRatio, tw, th)
    ELSE Contain(sourceRatio, targetRatio, tw, th)

calculateDimensions(sw, sh, tw, th, mode) ==
    DimensionsFor(FDiv(sw, sh), FDiv(tw, th), tw, th, mode)

\* part_001 235-246: the other axis from the one given: Math.round(given * ratio)
\* with ratio = num / den
InferAxis(given, num, den) ==
    MathRoundF(FMul(FromInt(given), FDiv(FromInt(num), FromInt(den))))

\* part_001 235-246: targetWidth and targetHeight.  `options?.width ||
\* video.videoWidth` takes the video's for a width of 0 as for none
TargetOf(v, o) ==
    [w |-> IF o.width # 0 THEN FromInt(o.width)
           ELSE IF o.height # 0 THEN InferAxis(o.height, v.videoWidth, v.videoHeight)
           ELSE FromInt(v.videoWidth),
     h |-> IF o.height # 0 THEN FromInt(o.height)
           ELSE IF o.width # 0 THEN InferAxis(o.width, v.videoHeight, v.videoWidth)
           ELSE FromInt(v.videoHeight)]

\* part_001 248: options?.mode || "contain"
ModeOf(o) == IF o.mode = "" THEN "contain" ELSE o.mode

\* how many multiples of the small video's sides are asked for
MaxScale == 3

\* the videos: full HD, two small ones and one without a video track
VideoSizes == {<<1920, 1080>>, <<9, 7>>, <<6, 13>>, <<0, 0>>}

\* options.width and options.height: not given (0), common sizes, multiples
\* of the sides of the 9x7 video, and a negative number
Widths == {0, 1280, 854, -16} \cup {9 * k : k \in 1..MaxScale}
Heights == {0, 720, 480} \cup {7 * k : k \in 1..MaxScale}
Modes == {"", "contain", "cover", "stretch"}

GeoInit ==
    /\ MQIdle
    /\ CapIdle
    /\ ToolIdle
    /\ HelperIdle
    /\ BatchIdle
    /\ gpc = "loaded"
    /\ \E v \in VideoSizes : videoSize = [videoWidth |-> v[1], videoHeight |-> v[2]]
    /\ opts \in [width : Widths, height : Heights, mode : Modes]
    /\ target = <<>>
    /\ dimensions = <<>>

\* part_001 235-262: the target size, the geometry and the canvas; nothing
\* on the way tests the numbers or throws
ResolveGeometry ==
    /\ gpc = "loaded"
    /\ gpc' = "resolved"
    /\ target' = TargetOf(videoSize, opts)
    /\ dimensions' = calculateDimensions(FromInt(videoSize.videoWidth),
                                         FromInt(videoSize.videoHeight),
                                         target'.w, target'.h, ModeOf(opts))
    /\ UNCHANGED <<videoSize, opts>>
    /\ UNCHANGED <<mqVars, capVars, helperVars, batchVars, toolVars>>

GeoNext == ResolveGeometry

SpecGeometry == GeoInit /\ [][GeoNext]_vars

----------------------------------------------------------------------------
(* Claims about the geometry.  They compare the numbers computed with what *)
(* exact arithmetic gives, so the values of finite numbers are taken as    *)
(* exact dyadic fractions n * 2^e.                                         *)

\* the magnitude of a finite number, exactly
Dy(x) == [n |-> x.m, e |-> x.e]

\* p * i for an integer 0 <= i < 2^15
DyTimes(p, i) == [n |-> BigMulSmall(p.n, i), e |-> p.e]

\* p and q as multiples of one power of 2
DyLeft(p, q) == BigShl(p.n, p.e - Min(p.e, q.e))
DyRight(p, q) == BigShl(q.n, q.e - Min(p.e, q.e))

\* -1, 0, 1 as p < q, p = q, p > q
DyCmp(p, q) == BigCmp(DyLeft(p, q), DyRight(p, q))

\* |a - b|
BigDist(a, b) == IF BigCmp(a, b) >= 0 THEN BigSub(a, b) ELSE BigSub(b, a)

\* p is q up to the rounding of a few operations: |p - q| <= q / 2^50
DyNear(p, q) ==
    BigCmp(BigShl(BigDist(DyLeft(p, q), DyRight(p, q)), Precision - 3),
           DyRight(p, q)) <= 0

\* x <= y up to rounding, for positive finite numbers
FLeNear(x, y) == FGe(y, x) \/ DyNear(Dy(x), Dy(y))

\* 2 * a = b - c, exactly, for finite numbers
IsHalfOf(a, b, c) ==
    IF FGe(b, c)
    THEN a.s > 0 /\ DyCmp(Dy(b), [n |-> BigAdd(DyLeft(DyTimes(Dy(a), 2), Dy(c)),
                                                DyRight(DyTimes(Dy(a), 2), Dy(c))),
                                  e |-> Min(a.e, c.e)]) = 0
    ELSE a.s < 0 /\ DyCmp(Dy(c), [n |-> BigAdd(DyLeft(DyTimes(Dy(a), 2), Dy(b)),
                                                DyRight(DyTimes(Dy(a), 2), Dy(b))),
                                  e |-> Min(a.e, b.e)]) = 0

\* the geometry was resolved for a video and a target with positive sides
PositiveGeometry ==
    /\ gpc = "resolved"
    /\ videoSize.videoWidth > 0
    /\ videoSize.videoHeight > 0
    /\ FGt(target.w, Zero(1))
    /\ FGt(target.h, Zero(1))

\* the rectangle w x h has the ratio of the video up to rounding
NearSourceRatio(w, h) ==
    DyNear(DyTimes(Dy(w), videoSize.videoHeight),
           DyTimes(Dy(h), videoSize.videoWidth))

\* the draw rectangle is the canvas, at (0, 0)
DrawsWholeCanvas ==
    /\ FEq(dimensions.drawWidth, dimensions.canvasWidth)
    /\ FEq(dimensions.drawHeight, dimensions.canvasHeight)
    /\ FEq(dimensions.drawX, Zero(1))
    /\ FEq(dimensions.drawY, Zero(1))

\* C22: in mode "contain" the canvas is inside the target (canvasWidth <=
\* targetW and canvasHeight <= targetH), is the target on at least one axis
\* and has the ratio of the source (read as: within rounding tolerance); the
\* draw rectangle is the canvas, at (0, 0).
C22_ContainInsideTarget ==
    (PositiveGeometry /\ ModeOf(opts) = "contain") =>
        /\ FGe(target.w, dimensions.canvasWidth)
        /\ FGe(target.h, dimensions.canvasHeight)
        /\ \/ FEq(dimensions.canvasWidth, target.w)
           \/ FEq(dimensions.canvasHeight, target.h)
        /\ NearSourceRatio(dimensions.canvasWidth, dimensions.canvasHeight)
        /\ DrawsWholeCanvas

\* what does hold in mode "contain": the canvas is the target on at least
\* one axis and, up to floating-point rounding (a relative error of at most
\* 2^-50), inside the target and of the source's ratio
ContainWithinRounding ==
    (PositiveGeometry /\ ModeOf(opts) = "contain") =>
        /\ FLeNear(dimensions.canvasWidth, target.w)
        /\ FLeNear(dimensions.canvasHeight, target.h)
        /\ \/ FEq(dimensions.canvasWidth, target.w)
           \/ FEq(dimensions.canvasHeight, target.h)
        /\ NearSourceRatio(dimensions.canvasWidth, dimensions.canvasHeight)
        /\ DrawsWholeCanvas

\* a 9x7 video contained in 27x21: the canvas is 21 high and a rounding
\* error wider than 27
ContainOvershoots ==
    /\ PositiveGeometry
    /\ ModeOf(opts) = "contain"
    /\ videoSize = [videoWidth |-> 9, videoHeight |-> 7]
    /\ FEq(target.w, FromInt(27))
    /\ FEq(dimensions.canvasHeight, FromInt(21))
    /\ FGt(dimensions.canvasWidth, FromInt(27))

\* the canvas is the target
CanvasIsTarget ==
    /\ FEq(dimensions.canvasWidth, target.w)
    /\ FEq(dimensions.canvasHeight, target.h)

\* C23: in mode "cover" the canvas is the target; the draw rectangle has
\* the source's ratio (read as: within rounding tolerance) and covers the
\* target (drawWidth >= targetW and drawHeight >= targetH), meeting it on
\* at least one axis; the offset is (target - drawn) / 2 on the axis that
\* overflows and 0 on the other.
C23_CoverCoversTarget ==
    (PositiveGeometry /\ ModeOf(opts) = "cover") =>
        /\ CanvasIsTarget
        /\ NearSourceRatio(dimensions.drawWidth, dimensions.drawHeight)
        /\ FGe(dimensions.drawWidth, target.w)
        /\ FGe(dimensions.drawHeight, target.h)
        /\ \/ FEq(dimensions.drawWidth, target.w)
           \/ FEq(dimensions.drawHeight, target.h)
        /\ IF FGt(dimensions.drawWidth, target.w)
           THEN IsHalfOf(dimensions.drawX, target.w, dimensions.drawWidth)
           ELSE FEq(dimensions.drawX, Zero(1))
        /\ IF FGt(dimensions.drawHeight, target.h)
           THEN IsHalfOf(dimensions.drawY, target.h, dimensions.drawHeight)
           ELSE FEq(dimensions.drawY, Zero(1))

\* what does hold in mode "cover": the canvas is the target; the draw
\* rectangle is the target on one axis, with offset 0 there, and on the
\* other axis its offset is (target - drawn) / 2; up to floating-point
\* rounding (a relative error of at most 2^-50) it has the source's ratio
\* and covers the target
CoverWithinRounding ==
    (PositiveGeometry /\ ModeOf(opts) = "cover") =>
        /\ CanvasIsTarget
        /\ NearSourceRatio(dimensions.drawWidth, dimensions.drawHeight)
        /\ FLeNear(target.w, dimensions.drawWidth)
        /\ FLeNear(target.h, dimensions.drawHeight)
        /\ \/ /\ FEq(dimensions.drawWidth, target.w)
              /\ FEq(dimensions.drawX, Zero(1))
              /\ IsHalfOf(dimensions.drawY, target.h, dimensions.drawHeight)
           \/ /\ FEq(dimensions.drawHeight, target.h)
              /\ FEq(dimensions.drawY, Zero(1))
              /\ IsHalfOf(dimensions.drawX, target.w, dimensions.drawWidth)

\* a 9x7 video covering 9x7: drawn 9 wide and a rounding error less than
\* 7 high, with a vertical offset above 0
CoverFallsShort ==
    /\ PositiveGeometry
    /\ ModeOf(opts) = "cover"
    /\ videoSize = [videoWidth |-> 9, videoHeight |-> 7]
    /\ FEq(target.w, FromInt(9))
    /\ FEq(target.h, FromInt(7))
    /\ FGt(target.h, dimensions.drawHeight)
    /\ FGt(dimensions.drawY, Zero(1))

\* C24: in mode "stretch" the canvas is the target and the draw rectangle
\* is the canvas at (0, 0), whatever the source.
C24_StretchIsTarget ==
    (gpc = "resolved" /\ ModeOf(opts) = "stretch") =>
        /\ dimensions.canvasWidth = target.w
        /\ dimensions.canvasHeight = target.h
        /\ dimensions.drawWidth = target.w
        /\ dimensions.drawHeight = target.h
        /\ FEq(dimensions.drawX, Zero(1))
        /\ FEq(dimensions.drawY, Zero(1))

\* a 1920x1080 video stretched to 9x21
C24_Witness ==
    /\ gpc = "resolved"
    /\ opts = [width |-> 9, height |-> 21, mode |-> "stretch"]
    /\ videoSize = [videoWidth |-> 1920, videoHeight |-> 1080]
    /\ FEq(dimensions.canvasWidth, FromInt(9))
    /\ FEq(dimensions.drawHeight, FromInt(21))

\* the geometry was resolved for a video with positive sides and options
\* that are positive where given
PositiveOptions ==
    /\ gpc = "resolved"
    /\ videoSize.videoWidth > 0
    /\ videoSize.videoHeight > 0
    /\ opts.width >= 0
    /\ opts.height >= 0

\* C25: the geometry is resolved only for positive source and target sides,
\* any other input failing with an error, and the canvas of a capture has
\* positive sides.
C25_InvalidDimensionsRejected ==
    gpc = "resolved" =>
        /\ videoSize.videoWidth > 0
        /\ videoSize.videoHeight > 0
        /\ FGt(target.w, Zero(1))
        /\ FGt(target.h, Zero(1))
        /\ FGt(dimensions.canvasWidth, Zero(1))
        /\ FGt(dimensions.canvasHeight, Zero(1))

\* the size given on one axis and Math.round(given * num / den), computed
\* exactly, on the other
RoundedExactly(inferred, given, num, den) ==
    inferred = FromInt(MathRound(given * num, den))

\* x is an integer nearest to num / den: 2 * |x * den - num| <= den
NearestTo(x, num, den) ==
    /\ x.k = "num"
    /\ MathRoundF(x) = x
    /\ BigCmp(BigDist(DyLeft(DyTimes(Dy(x), 2 * den), Dy(FromInt(2 * num))),
                       DyRight(DyTimes(Dy(x), 2 * den), Dy(FromInt(2 * num)))),
               DyLeft(Dy(FromInt(den)),
                      [n |-> <<1>>,
                       e |-> Min(DyTimes(Dy(x), 2 * den).e,
                                 Dy(FromInt(2 * num)).e)])) <= 0

\* with neither side given the target is the size of the source
SourceSizeByDefault ==
    (opts.width = 0 /\ opts.height = 0) =>
        /\ target.w = FromInt(videoSize.videoWidth)
        /\ target.h = FromInt(videoSize.videoHeight)

\* C26: with only a width given the target height is round(width * sourceH
\* / sourceW), with only a height the target width is round(height *
\* sourceW / sourceH), and with neither the target is the source size.
C26_InferredAxisRounded ==
    PositiveOptions =>
        /\ (opts.width > 0 /\ opts.height = 0) =>
               /\ target.w = FromInt(opts.width)
               /\ RoundedExactly(target.h, opts.width,
                                 videoSize.videoHeight, videoSize.videoWidth)
        /\ (opts.height > 0 /\ opts.width = 0) =>
               /\ target.h = FromInt(opts.height)
               /\ RoundedExactly(target.w, opts.height,
                                 videoSize.videoWidth, videoSize.videoHeight)
        /\ SourceSizeByDefault

\* C26, amended: with only a width given the target height is an integer
\* nearest to width * sourceH / sourceW (at a half, either neighbour), with
\* only a height the target width is an integer nearest to height * sourceW
\* / sourceH, and with neither the target is the source size; a width of
\* 1280 on a 1920x1080 source gives the height 720.
C26_InferredAxisNearest ==
    PositiveOptions =>
        /\ (opts.width > 0 /\ opts.height = 0) =>
               /\ target.w = FromInt(opts.width)
               /\ NearestTo(target.h, opts.width * videoSize.videoHeight,
                            videoSize.videoWidth)
        /\ (opts.height > 0 /\ opts.width = 0) =>
               /\ target.h = FromInt(opts.height)
               /\ NearestTo(target.w, opts.height * videoSize.videoWidth,
                            videoSize.videoHeight)
        /\ (opts.width = 1280 /\ opts.height = 0
              /\ videoSize = [videoWidth |-> 1920, videoHeight |-> 1080]) =>
               target.h = FromInt(720)
        /\ SourceSizeByDefault

\* the width 27 on a 6x13 video: 27 * 13 / 6 is 58.5 and the height is 58
C26_Witness ==
    /\ PositiveOptions
    /\ videoSize = [videoWidth |-> 6, videoHeight |-> 13]
    /\ opts.width = 27
    /\ opts.height = 0
    /\ target.h = FromInt(58)

----------------------------------------------------------------------------
(* The engine command: ffmpegArgs of resizeVideoToHLS (hls.ts 136-181), of *)
(* processQuality (469-509) and of fastResizeVideo (1032-1064)             *)

\* `${Math.round(bitrate / 1000)}k`, or the default when no bitrate is given
BitrateArg(bitrate, default) ==
    IF bitrate # 0 THEN ToString(MathRound(bitrate, 1000)) \o "k" ELSE default

\* the scale of the filter with a number on both axes, 0 for one not given
ScaleOfLiteral(width, height) == ToString(width) \o ":" \o ToString(height)

\* hls.ts 157-164: `scale` for a width or a height that is given
ScaleOf(width, height) ==
    IF width # 0 /\ height # 0 THEN ToString(width) \o ":" \o ToString(height)
    ELSE IF width # 0 THEN ToString(width) \o ":-2"
    ELSE IF height # 0 THEN "-2:" \o ToString(height)
    ELSE ""

\* hls.ts 155-167: "Add resize if specified"
ScaleArgs(width, height) ==
    IF width # 0 \/ height # 0
    THEN <<"-vf", "scale=" \o ScaleOf(width, height)>>
    ELSE <<>>

\* hls.ts 169-180, 498-509: the HLS options
HLSArgs(segmentPattern, outputName) ==
    <<"-f", "hls", "-hls_time", "10", "-hls_playlist_type", "vod",
      "-hls_segment_filename", segmentPattern, outputName>>

\* hls.ts 136-181: resizeVideoToHLS
ArgsOfHLS(o) ==
    <<"-i", "input.mp4", "-c:v", "libx264", "-c:a", "aac",
      "-b:v", BitrateArg(o.videoBitrate, "2500k"), "-b:a", "128k">>
    \o ScaleArgs(o.width, o.height)
    \o HLSArgs("segment_%03d.ts", "output.m3u8")

\* hls.ts 460-509: processQuality for the level 720p
ArgsOfQuality(o) ==
    <<"-i", "input_720p.mp4", "-c:v", "libx264", "-c:a", "aac",
      "-b:v", ToString(MathRound(o.videoBitrate, 1000)) \o "k", "-b:a", "128k">>
    \o ScaleArgs(o.width, o.height)
    \o HLSArgs("segment_720p_%03d.ts", "playlist_720p.m3u8")

\* hls.ts 1032-1064: fastResizeVideo
ArgsOfFast(o) ==
    <<"-i", "input.mp4">>
    \o (IF o.format \in {"", "mp4"}
        THEN <<"-c:v", "libx264", "-c:a", "aac">>
        ELSE <<"-c:v", "libvpx-vp9", "-c:a", "libopus">>)
    \o <<"-b:v", BitrateArg(o.videoBitrate, "2500k"), "-b:a", "128k">>
    \o ScaleArgs(o.width, o.height)
    \o <<"output." \o (IF o.format = "" THEN "mp4" ELSE o.format)>>

CommandBuilders == {"resizeVideoToHLS", "processQuality", "fastResizeVideo"}

ArgsOf(fn, o) ==
    IF fn = "resizeVideoToHLS" THEN ArgsOfHLS(o)
    ELSE IF fn = "processQuality" THEN ArgsOfQuality(o)
    ELSE ArgsOfFast(o)

\* the sizes asked for: none (0), common ones and odd ones
CmdWidths == {0, 640, 1280, 853}
CmdHeights == {0, 360, 720, 1}

CmdInit ==
    /\ MQIdle
    /\ CapIdle
    /\ HelperIdle
    /\ BatchIdle
    /\ GeoIdle
    /\ ZipIdle
    /\ EngIdle
    /\ kpc = "called"
    /\ cmdFn \in CommandBuilders
    /\ cmdOpts \in [width : CmdWidths, height : CmdHeights,
                    videoBitrate : {0, 2800000}, format : {"", "mp4", "webm"}]
    /\ cmdFn # "fastResizeVideo" => cmdOpts.format = ""
    /\ cmdFn = "processQuality" => cmdOpts.videoBitrate # 0
    /\ ffmpegArgs = <<>>

\* the function builds its command, up to `await ffmpeg.exec(ffmpegArgs)`
BuildCommand ==
    /\ kpc = "called"
    /\ kpc' = "built"
    /\ ffmpegArgs' = ArgsOf(cmdFn, cmdOpts)
    /\ UNCHANGED <<cmdFn, cmdOpts>>
    /\ UNCHANGED <<mqVars, capVars, helperVars, batchVars, geoVars, zipVars, engVars>>

CmdNext == BuildCommand

SpecCommand == CmdInit /\ [][CmdNext]_vars

\* the arguments that follow a "-vf" in the command
FiltersOf(args) == {args[k + 1] : k \in {j \in 1..(Len(args) - 1) : args[j] = "-vf"}}

\* C37: the command holds a scale filter exactly when a width or a height
\* is given: W:H with both, W:-2 with the width only, -2:H with the height
\* only, and no -vf argument with neither.
C37_ScaleFilter ==
    kpc = "built" =>
        /\ \A k \in 1..Len(ffmpegArgs) :
              ffmpegArgs[k] = "-vf" => (cmdOpts.width # 0 \/ cmdOpts.height # 0)
        /\ (cmdOpts.width # 0 /\ cmdOpts.height # 0) =>
              FiltersOf(ffmpegArgs) =
                  {"scale=" \o ToString(cmdOpts.width) \o ":" \o ToString(cmdOpts.height)}
        /\ (cmdOpts.width # 0 /\ cmdOpts.height = 0) =>
              FiltersOf(ffmpegArgs) = {"scale=" \o ToString(cmdOpts.width) \o ":-2"}
        /\ (cmdOpts.width = 0 /\ cmdOpts.height # 0) =>
              FiltersOf(ffmpegArgs) = {"scale=-2:" \o ToString(cmdOpts.height)}
        /\ ffmpegArgs[Len(ffmpegArgs)] \notin {"-vf"} \cup FiltersOf(ffmpegArgs)

\* fastResizeVideo with a width of 1280 only: the filter is scale=1280:-2
C37_Witness ==
    /\ kpc = "built"
    /\ cmdFn = "fastResizeVideo"
    /\ cmdOpts.width = 1280
    /\ cmdOpts.height = 0
    /\ FiltersOf(ffmpegArgs) = {"scale=1280:-2"}

----------------------------------------------------------------------------
(* What a capture returns: the whole of resizeVideo for every output asked *)
(* for, with recorders that take the requested type and that fall back     *)

\* part_001 171-172, 448: the reader has read the blob; its data URL carries
\* the type of the blob
ReaderLoaded ==
    /\ resolved.kind = "reading"
    /\ resolved' = ResolveWith(promise, [resolved EXCEPT !.kind = "dropped"],
                               [resolved EXCEPT !.kind = "base64"])
    /\ promise' = Settle(promise, "resolved")
    /\ UNCHANGED <<cpc, capOnProgress, duration, rec, startEvt, stopEvt, stopCalls,
                   loop, vTime, vPaused, vEnded, endedEvt, lastTime, capSeen>>
    /\ UNCHANGED resVars
    /\ UNCHANGED <<optMime, isTypeSupported, supportedMimeType, optOutput>>
    /\ UNCHANGED <<mqVars, auxVars>>

\* part_001 173, 454-456: the reader fails; onstop's catch rejects
ReaderFailed ==
    /\ resolved.kind = "reading"
    /\ resolved' = [resolved EXCEPT !.kind = "dropped"]
    /\ promise' = Settle(promise, "rejected")
    /\ capErr' = RejectReason(promise, capErr, "reader")
    /\ UNCHANGED <<cpc, capOnProgress, duration, rec, startEvt, stopEvt, stopCalls,
                   loop, vTime, vPaused, vEnded, endedEvt, lastTime, capSeen,
                   urls, tracks, vBound, audio>>
    /\ UNCHANGED <<optMime, isTypeSupported, supportedMimeType, optOutput>>
    /\ UNCHANGED <<mqVars, auxVars>>

\* the types asked for: none, and three of MIME_TYPE
OutputRequests ==
    {"none", "video/mp4", "video/webm;codecs=vp9,opus", "video/x-matroska;codecs=avc1"}

\* browsers that record every type, WebM without vp9 and MP4, or MP4 only
OutputBrowsers ==
    {MimeTypes,
     {"video/webm;codecs=vp8,opus", "video/webm", "video/mp4"},
     {"video/mp4"}}

OutputInit ==
    /\ MQIdle
    /\ AuxIdle
    /\ CapCalled
    /\ capOnProgress = FALSE
    /\ duration = EndTolerance + 1
    /\ optMime \in OutputRequests
    /\ optOutput \in {"", "file", "blob", "base64"}
    /\ isTypeSupported \in OutputBrowsers

OutputNext ==
    \/ CapNext
    \/ ReaderLoaded
    \/ ReaderFailed

SpecOutput == OutputInit /\ [][OutputNext]_vars

\* the promise was resolved with a File, a Blob or a data URL
Returned == promise = "resolved" /\ resolved.kind \in {"file", "blob", "base64"}

\* C35: what resizeVideo returns carries the type negotiated for the
\* recorder, whatever the representation, and a File has the extension of
\* that type, also when a fallback type was selected.
C35_OutputCarriesRecordedType ==
    Returned =>
        /\ resolved.type = supportedMimeType
        /\ resolved.kind = "file" => resolved.extension = ExtensionOf(supportedMimeType)

----------------------------------------------------------------------------
(* Packaging: downloadMultiQualityHLSAsZip (hls.ts 838-880) on what        *)
(* resizeVideoToMultiQualityHLS returned                                   *)

UpperCase == "ABCDEFGHIJKLMNOPQRSTUVWXYZ"
LowerCase == "abcdefghijklmnopqrstuvwxyz"
Digits == "0123456789"

\* the characters of a string
CharsOf(str) == {SubSeq(str, k, k) : k \in 1..Len(str)}

\* String.prototype.toLowerCase on one character
ToLowerCase(c) ==
    IF c \in CharsOf(UpperCase)
    THEN LET k == CHOOSE j \in 1..Len(UpperCase) : SubSeq(UpperCase, j, j) = c
         IN  SubSeq(LowerCase, k, k)
    ELSE c

\* .replace(/[^a-z0-9]/g, "_") on one character
ReplaceOther(c) ==
    IF c \in CharsOf(LowerCase) \cup CharsOf(Digits) THEN c ELSE "_"

RECURSIVE QualityDir(_)
\* hls.ts 857-859: level.name.toLowerCase().replace(/[^a-z0-9]/g, "_")
QualityDir(name) ==
    IF name = "" THEN ""
    ELSE ReplaceOther(ToLowerCase(SubSeq(name, 1, 1))) \o QualityDir(Tail(name))

\* File.name of a playlist: `${level.name}_playlist.m3u8` as one string
FileName(parts) == parts[1] \o parts[2]

\* hls.ts 464-466, 521-523: the name of a segment of a level
SegmentName(level) == "segment_" \o QualityDir(level.name) \o "_000.ts"

\* zip.file(path, content): an entry of that path is replaced
ZipFile(z, path, content) ==
    {e \in z : e.path # path} \cup {[path |-> path, content |-> content]}

\* hls.ts 862: `${qualityDir}/playlist.m3u8`
PlaylistPath(quality) == QualityDir(quality.level.name) \o "/playlist.m3u8"

RECURSIVE ZipQualities(_, _, _)
\* hls.ts 856-868: the loop over hlsOutput.qualities from index k on
ZipQualities(z, qs, k) ==
    IF k > Len(qs) THEN z
    ELSE ZipQualities(
             ZipFile(ZipFile(z, PlaylistPath(qs[k]), <<"playlist", k>>),
                     QualityDir(qs[k].level.name) \o "/" \o SegmentName(qs[k].level),
                     <<"segment", k>>),
             qs, k + 1)

\* longest ladder that is packaged
MaxZipLevels == 3

\* level names: presets, names that differ in case or in a sign only
ZipNames == {"360p", "720p", "720P", "HD+", "HD-", "source"}

\* what the orchestrator returns for a ladder of these names
OutputFor(names) ==
    [qualities |-> [k \in 1..Len(names) |->
                       QualityOf(Level(names[k], 0, 0, 800000, 0))],
     masterPlaylistContent |->
         MasterPlaylist([k \in 1..Len(names) |->
                            QualityOf(Level(names[k], 0, 0, 800000, 0))])]

ZipInit ==
    /\ MQIdle
    /\ CapIdle
    /\ HelperIdle
    /\ BatchIdle
    /\ GeoIdle
    /\ CmdIdle
    /\ EngIdle
    /\ zpc = "called"
    /\ \E names \in SeqsUpTo(ZipNames, MaxZipLevels) :
          Len(names) > 0 /\ hlsOutput = OutputFor(names)
    /\ zip = {}

\* hls.ts 842-846: window.JSZip is not defined
ZipMissing ==
    /\ zpc = "called"
    /\ zpc' = "rejected"
    /\ UNCHANGED <<hlsOutput, zip>>
    /\ UNCHANGED <<mqVars, capVars, helperVars, batchVars, geoVars, cmdVars, engVars>>

\* hls.ts 848-871: the master playlist and every quality are added, up to
\* `await zip.generateAsync`
ZipFilled ==
    /\ zpc = "called"
    /\ zpc' = "zipped"
    /\ zip' = ZipQualities(ZipFile({}, "master.m3u8", <<"master">>),
                           hlsOutput.qualities, 1)
    /\ UNCHANGED hlsOutput
    /\ UNCHANGED <<mqVars, capVars, helperVars, batchVars, geoVars, cmdVars, engVars>>

ZipNext == ZipMissing \/ ZipFilled

SpecZip == ZipInit /\ [][ZipNext]_vars

\* every reference line of master.m3u8 is the path of that rendition's
\* playlist in the zip
ReferencesResolve ==
    \A k \in 1..Len(hlsOutput.masterPlaylistContent) :
        [path |-> FileName(hlsOutput.masterPlaylistContent[k].ref),
         content |-> <<"playlist", k>>] \in zip

\* the playlist of every level is in the zip: no level took the path of
\* another
PlaylistsKept ==
    \A k \in 1..Len(hlsOutput.qualities) :
        \E e \in zip : e.content = <<"playlist", k>>

\* C38: every reference line of master.m3u8 names a path at which the zip
\* holds the playlist of that rendition, and no two levels of the ladder
\* share a path.
C38_ReferencesResolve ==
    zpc = "zipped" => (ReferencesResolve /\ PlaylistsKept)

----------------------------------------------------------------------------
(* The shared engine: getFFmpeg (hls.ts 39-79 and 922-982) under calls of  *)
(* resizeVideoToHLS (120-224) or of fastResizeVideo (1012-1100), separate  *)
(* or made by the batch functions (231-263, 1106-1130)                     *)

Calls == DOMAIN epc

\* the names in the engine's file system: input.mp4, output.m3u8 or
\* output.<format>, segment_000.ts; they are the same for every call
FileNames == {"input", "output", "segment"}

\* what exec writes
OutputNames(fn) ==
    IF fn = "resizeVideoToHLS" THEN {"output", "segment"} ELSE {"output"}

FileOp(op, name) == [op |-> op, name |-> name]

\* hls.ts 187-217 and 1072-1079: the readFile and deleteFile calls after
\* exec, in their order
StepsOf(fn) ==
    IF fn = "resizeVideoToHLS"
    THEN <<FileOp("read", "output"), FileOp("read", "segment"),
           FileOp("delete", "input"), FileOp("delete", "output"),
           FileOp("delete", "segment")>>
    ELSE <<FileOp("read", "output"),
           FileOp("delete", "input"), FileOp("delete", "output")>>

\* hls.ts 46-55: the "progress" handler is set where the instance is made,
\* with the onProgress of that call if it gave one
HandlerOf(made, old, c, given) ==
    IF made THEN old ELSE IF given THEN c ELSE 0

\* hls.ts 251-252: ((i + progress / 100) / files.length) * 100, rounded
BatchTotal(i, progress, n) ==
    MathRoundF(FMul(FDiv(FAdd(FromInt(i), FDiv(FromInt(progress), FromInt(100))),
                         FromInt(n)),
                    FromInt(100)))

\* Math.round(progress * 100) of the events of one encode
EnginePercents == {0, 50, 100}

\* separate calls that may overlap
MaxCalls == 2

\* longest batch
MaxEngFiles == 3

EngineFunctions == {"resizeVideoToHLS", "fastResizeVideo"}

EngCalled(n) ==
    /\ MQIdle
    /\ CapIdle
    /\ HelperIdle
    /\ BatchIdle
    /\ GeoIdle
    /\ CmdIdle
    /\ ZipIdle
    /\ eFn \in EngineFunctions
    /\ epc = [c \in 1..n |-> "idle"]
    /\ eStep = [c \in 1..n |-> 0]
    /\ eOut = [c \in 1..n |-> [name \in FileNames |-> 0]]
    /\ ffmpegInstance = 0
    /\ isFFmpegLoaded = FALSE
    /\ instances = 0
    /\ loads = 0
    /\ handler = 0
    /\ fs = [name \in FileNames |-> 0]
    /\ running = NoRun
    /\ lastEvent = NoEvent
    /\ eTotal = NoTotal
    /\ touched = FALSE

\* the page makes MaxCalls calls, each with or without an onProgress
EngInit ==
    /\ EngCalled(MaxCalls)
    /\ eFiles = 0
    /\ eCb \in [1..MaxCalls -> BOOLEAN]

\* hls.ts 231-263: resizeVideosToHLS(files, options) with options.onProgress;
\* every call of resizeVideoToHLS gets an onProgress of its own
EngBatchInit ==
    /\ \E n \in 1..MaxEngFiles : EngCalled(n) /\ eFiles = n
    /\ eCb = [c \in Calls |-> TRUE]

engOthers == <<mqVars, capVars, helperVars, batchVars, geoVars, cmdVars, zipVars>>

\* hls.ts 120-127, 43-44: the call, up to getFFmpeg's `await
\* loadFFmpegDependencies()`; the batch's loop calls for file i when the
\* call for file i - 1 has returned
EngStart(c) ==
    /\ c \in Calls
    /\ epc[c] = "idle"
    /\ IF eFiles # 0 /\ c > 1 THEN epc[c - 1] = "done" ELSE TRUE
    /\ epc' = [epc EXCEPT ![c] = "deps"]
    /\ UNCHANGED <<eFn, eFiles, eStep, eCb, eOut, ffmpegInstance, isFFmpegLoaded,
                   instances, loads, handler, fs, running, lastEvent, eTotal,
                   touched>>
    /\ UNCHANGED engOthers

\* hls.ts 46-62: the instance is made if there is none; without
\* isFFmpegLoaded the call goes on to load, up to `await toBlobURL`
GetInstance(c) ==
    /\ c \in Calls
    /\ epc[c] = "deps"
    /\ ffmpegInstance' = (IF ffmpegInstance = 0 THEN c ELSE ffmpegInstance)
    /\ instances' = (IF ffmpegInstance = 0 THEN instances + 1 ELSE instances)
    /\ handler' = HandlerOf(ffmpegInstance # 0, handler, c, eCb[c])
    /\ epc' = [epc EXCEPT ![c] = IF isFFmpegLoaded THEN "ready" ELSE "urls"]
    /\ UNCHANGED <<eFn, eFiles, eStep, eCb, eOut, isFFmpegLoaded, loads, fs,
                   running, lastEvent, eTotal, touched>>
    /\ UNCHANGED engOthers

\* hls.ts 66-72: ffmpegInstance.load(...) is invoked and awaited
CallLoad(c) ==
    /\ c \in Calls
    /\ epc[c] = "urls"
    /\ loads' = loads + 1
    /\ epc' = [epc EXCEPT ![c] = "loading"]
    /\ UNCHANGED <<eFn, eFiles, eStep, eCb, eOut, ffmpegInstance, isFFmpegLoaded,
                   instances, handler, fs, running, lastEvent, eTotal, touched>>
    /\ UNCHANGED engOthers

\* hls.ts 74-78, 127-131: load resolved; the instance is returned, up to
\* `await ffmpeg.writeFile(inputName, ...)`
EngLoaded(c) ==
    /\ c \in Calls
    /\ epc[c] = "loading"
    /\ isFFmpegLoaded' = TRUE
    /\ epc' = [epc EXCEPT ![c] = "ready"]
    /\ UNCHANGED <<eFn, eFiles, eStep, eCb, eOut, ffmpegInstance, instances, loads,
                   handler, fs, running, lastEvent, eTotal, touched>>
    /\ UNCHANGED engOthers

\* hls.ts 130-131: the engine writes the input of call c
WriteInput(c) ==
    /\ c \in Calls
    /\ epc[c] = "ready"
    /\ fs' = [fs EXCEPT !["input"] = c]
    /\ touched' = (touched \/ fs["input"] \notin {0, c})
    /\ epc' = [epc EXCEPT ![c] = "written"]
    /\ UNCHANGED <<eFn, eFiles, eStep, eCb, eOut, ffmpegInstance, isFFmpegLoaded,
                   instances, loads, handler, running, lastEvent, eTotal>>
    /\ UNCHANGED engOthers

\* hls.ts 185: the engine's worker takes the exec of call c and opens the
\* input file; it runs one command at a time
ExecStart(c) ==
    /\ c \in Calls
    /\ epc[c] = "written"
    /\ running = NoRun
    /\ running' = [call |-> c, src |-> fs["input"]]
    /\ touched' = (touched \/ fs["input"] \notin {0, c})
    /\ epc' = [epc EXCEPT ![c] = "exec"]
    /\ UNCHANGED <<eFn, eFiles, eStep, eCb, eOut, ffmpegInstance, isFFmpegLoaded,
                   instances, loads, handler, fs, lastEvent, eTotal>>
    /\ UNCHANGED engOthers

\* hls.ts 50-53, 248-255: the engine fires "progress" during the exec of
\* call c; the handler set on the instance passes the percentage to the
\* onProgress it holds, which in a batch reports the total
EngProgress(c, p) ==
    /\ c \in Calls
    /\ running.call = c
    /\ lastEvent' = [by |-> c, to |-> handler, p |-> p]
    /\ eTotal' = (IF eFiles # 0 /\ handler # 0
                  THEN BatchTotal(handler - 1, p, eFiles) ELSE eTotal)
    /\ UNCHANGED <<eFn, eFiles, epc, eStep, eCb, eOut, ffmpegInstance,
                   isFFmpegLoaded, instances, loads, handler, fs, running, touched>>
    /\ UNCHANGED engOthers

\* hls.ts 185: exec resolves; the outputs made from the input that was read
\* are in the file system (none without an input)
ExecEnd(c) ==
    /\ c \in Calls
    /\ running.call = c
    /\ running' = NoRun
    /\ fs' = [name \in FileNames |->
                 IF running.src # 0 /\ name \in OutputNames(eFn)
                 THEN running.src ELSE fs[name]]
    /\ touched' = (touched \/ (running.src # 0 /\
                       \E name \in OutputNames(eFn) : fs[name] \notin {0, c}))
    /\ epc' = [epc EXCEPT ![c] = "post"]
    /\ eStep' = [eStep EXCEPT ![c] = 1]
    /\ UNCHANGED <<eFn, eFiles, eCb, eOut, ffmpegInstance, isFFmpegLoaded,
                   instances, loads, handler, lastEvent, eTotal>>
    /\ UNCHANGED engOthers

\* where call c stands after one more file operation
AfterStep(c) ==
    IF eStep[c] = Len(StepsOf(eFn)) THEN "done" ELSE "post"

\* hls.ts 190-207: readFile of the playlist or of a segment; it throws for a
\* name that is not there
ReadFile(c) ==
    /\ c \in Calls
    /\ epc[c] = "post"
    /\ StepsOf(eFn)[eStep[c]].op = "read"
    /\ LET name == StepsOf(eFn)[eStep[c]].name
       IN  IF fs[name] = 0
           THEN /\ epc' = [epc EXCEPT ![c] = "rejected"]
                /\ UNCHANGED <<eStep, eOut, touched>>
           ELSE /\ epc' = [epc EXCEPT ![c] = AfterStep(c)]
                /\ eStep' = [eStep EXCEPT ![c] = @ + 1]
                /\ eOut' = [eOut EXCEPT ![c][name] = fs[name]]
                /\ touched' = (touched \/ fs[name] # c)
    /\ UNCHANGED <<eFn, eFiles, eCb, ffmpegInstance, isFFmpegLoaded, instances,
                   loads, handler, fs, running, lastEvent, eTotal>>
    /\ UNCHANGED engOthers

\* hls.ts 210-214: deleteFile of the input, the playlist or a segment; it
\* throws for a name that is not there, and nothing catches it
DeleteFile(c) ==
    /\ c \in Calls
    /\ epc[c] = "post"
    /\ StepsOf(eFn)[eStep[c]].op = "delete"
    /\ LET name == StepsOf(eFn)[eStep[c]].name
       IN  IF fs[name] = 0
           THEN /\ epc' = [epc EXCEPT ![c] = "rejected"]
                /\ UNCHANGED <<eStep, fs, touched>>
           ELSE /\ epc' = [epc EXCEPT ![c] = AfterStep(c)]
                /\ eStep' = [eStep EXCEPT ![c] = @ + 1]
                /\ fs' = [fs EXCEPT ![name] = 0]
                /\ touched' = (touched \/ fs[name] # c)
    /\ UNCHANGED <<eFn, eFiles, eCb, eOut, ffmpegInstance, isFFmpegLoaded,
                   instances, loads, handler, running, lastEvent, eTotal>>
    /\ UNCHANGED engOthers

EngNext ==
    \E c \in 1..MaxEngFiles :
        \/ EngStart(c)
        \/ GetInstance(c)
        \/ CallLoad(c)
        \/ EngLoaded(c)
        \/ WriteInput(c)
        \/ ExecStart(c)
        \/ \E p \in EnginePercents : EngProgress(c, p)
        \/ ExecEnd(c)
        \/ ReadFile(c)
        \/ DeleteFile(c)

SpecEngine == EngInit /\ [][EngNext]_vars

SpecEngineBatch == EngBatchInit /\ [][EngNext]_vars

\* C31: the progress events of the encode of a call that passes an
\* onProgress are delivered to that callback, also when an earlier call made
\* the shared instance.
C31_ProgressReachesCaller ==
    IF lastEvent.by # 0 /\ eCb[lastEvent.by]
    THEN lastEvent.to = lastEvent.by
    ELSE TRUE

\* C32: in a batch over N files every total reported while the file at
\* index i is encoded is round(((i + p/100) / N) * 100), p being the
\* percentage of that file's encode.
C32_BatchTotals ==
    (eFiles # 0 /\ lastEvent.by # 0) =>
        eTotal = BatchTotal(lastEvent.by - 1, lastEvent.p, eFiles)

\* C33: however the calls of getFFmpeg interleave, one engine instance is
\* made and its load() is invoked at most once.
C33_OneInstanceOneLoad == instances <= 1 /\ loads <= 1

\* C34: calls that overlap do not read, replace or delete each other's
\* entries: a call that returns has read the playlist and the segments made
\* from its own input.
C34_OwnNamespace ==
    /\ ~touched
    /\ \A c \in Calls :
          epc[c] = "done" => \A name \in OutputNames(eFn) : eOut[c][name] = c

============================================================================
